---- MODULE Spec2Model ----
(***************************************************************************)
(* Message-response pipeline of the Tinder bot.                            *)
(*                                                                         *)
(*   src/core/message_handler.py   MessageHandler (the pipeline)           *)
(*   src/web_app.py                bot_loop, pending / approved lists      *)
(*   src/utils/data_manager.py     DataManager (ledger, rejected set)      *)
(*   src/personality.py            MessageGenerator (reply generator)      *)
(*   src/claude_handler.py         ClaudeHandler (simple generator)        *)
(***************************************************************************)
EXTENDS Integers, Sequences, FiniteSets, TLC

(***************************************************************************)
(* Bounds of the model.                                                    *)
(***************************************************************************)
MaxMsgs == 2        \* messages the source delivers, all conversations together
MaxRestarts == 1    \* process restarts
MaxRejects == 1     \* /reject requests counted by the statistics
MaxChunks == 3      \* pieces in a text the backend answers with
MaxSanLen == 6      \* characters in an argument of _sanitize_reply
MaxRecords == 3     \* calls of _track_usage
MaxBotThreads == 2  \* bot threads ever created
MaxStateThreads == 4 \* threads a BotState ever creates
MaxClock == 6       \* the time after which no call of wait_if_needed begins
min_interval == 2   \* RateLimiter.min_interval, in ticks of the clock
MaxExtraKeys == 2   \* match ids beyond the size the conversation cache is cut at

(***************************************************************************)
(* Program constants.                                                      *)
(***************************************************************************)
MatchLimit == 100   \* DEFAULT_CONFIG["match_limit"]
max_retries == 3    \* src/personality.py, line 64
CacheLimit == 100   \* src/utils/data_manager.py, line 102
EvictCount == 20    \* src/utils/data_manager.py, line 104

Conv == {"c1", "c2"}
ConvOrder == <<"c1", "c2">>     \* order in which the source lists the matches
Threads == {1, 2}               \* threads that may run bot_loop
\* The text generate_reply hands back for a conversation whose newest
\* inbound message is the one sent at msg_timestamp.  The pipeline never
\* looks into the text, so the model keeps only what it answers.
Draft(match_id, msg_timestamp) == <<"reply", match_id, msg_timestamp.t>>
\* locals of the loop body before a match is picked
\* Timestamps are strings of two makes: the source's time of sending on a
\* message, and datetime.now(timezone.utc).isoformat() of the local clock on
\* a log entry.  A message is processed after it was sent, so a log entry's
\* time is never the time of a message.
SrcTs(k) == [clock |-> "source", t |-> k]
LocalTs(n) == [clock |-> "local", t |-> n]
NoCur == [match_id |-> "", msg_timestamp |-> SrcTs(0), log_entry |-> <<>>]

VARIABLES
    \* ---- Conversation Source / wall clock / configuration
    convs,               \* match_id -> messages ([role, timestamp]), chronological
    now,                 \* local wall clock; every read returns a later value
    auto_approve,        \* config["auto_approve"]
    \* ---- MessageHandler
    processed_messages,  \* self.processed_messages: set of msg_id
    chat_log_file,       \* lines of data/chat_log.json
    auto_approved_file,  \* lines of data/auto_approved_log.json
                         \* (of a line, the fields FileLine keeps)
    \* ---- web_app
    pending_logs, auto_approved_logs,
    stats,               \* StatsManager.stats (saved on every increment)
    \* ---- DataManager
    rejected_matches, rejected_file,
    \* ---- one process_new_messages call per bot_loop thread
    workers,             \* threads that run bot_loop
    pc, snap, idx, cur, processed,
    \* ---- observation of the run (history, read by no action)
    delivered,           \* msg ids whose reply the Sink has ever delivered
    sinkCalls,           \* msg id -> _send_reply calls made by this process
    failedIds,           \* msg ids whose latest _send_reply returned False
    clean,               \* every dispatch of this process found auto_approve
                         \* on and the Sink delivering
    rejectedGen,         \* matches given to generate_reply while rejected
    approvals,           \* sends made by approve_match
    lastSnap,            \* the list the last finished pass of this process saw
    repeat,              \* the pass sees the very list the pass before it saw
    passAuto,            \* auto_approve during the pass: "on", "off", "mixed"
    passSends,           \* _send_reply calls of the pass
    unseen,              \* matches whose newest inbound message the pass found
                         \* not handled yet
    epoch,               \* restarts so far
    \* one call of a reply generator
    g_pc,                \* "idle", "call", "retry_call", "returned"
    via,                 \* the class whose generate_reply runs
    user_name,           \* the recipient's name
    system_prompt,       \* the instruction the next backend call carries
    attempt,             \* the loop variable of generate_reply
    got,                 \* completions the running attempt has received
    original,            \* the attempt's first completion
    alternate,           \* the attempt's alternate-personality completion
    result,              \* the value generate_reply returned
    calls,               \* backend calls made
    alt_calls,           \* alternate-personality backend calls made (line 76)
    raises,              \* backend calls that raised
    sleeps,              \* the time.sleep calls of the retry loop, in order
    \* one call of _sanitize_reply
    san_text,            \* the argument
    san_reply,           \* the value returned
    san_done,            \* the call has returned
    \* _track_usage and the usage store
    usage_file,          \* CLAUDE_USAGE_FILE
    trackers,            \* callers that may run _track_usage
    u_pc,                \* caller -> "idle", "loaded"
    u_arg,               \* caller -> the arguments of its call
    u_usage,             \* caller -> its local `usage`
    u_seen,              \* caller -> what its last call found the file to be
    u_base,              \* the file before the first call
    u_calls,             \* calls begun
    rec_total,           \* sum of the tokens of the calls that returned
    rec_by,              \* model -> sum of its tokens in those calls
    \* DataManager: the reply ledger and the conversation cache
    replied_messages,    \* match_id -> message_time
    replied_file,        \* replied_matches.json
    conversation_cache,  \* match_id -> messages
    conversation_cache_file,
    last_mark,           \* match_id -> time of its last mark_replied since the last clear
    d_log,               \* the last two calls made on the DataManager
    d_lastRej,           \* match_id -> the last call that named it in the rejected set
    \* a process starting on the files it finds
    disk,                \* the three stores as the constructors find them
    loaded,              \* what the constructors made of them
    \* history of the writes that failed
    write_failed,        \* ids of the messages one of whose log lines was not written
    \* the records of the Conversation Source
    shape,               \* match_id -> what kind of value get_matches returns for it
    \* web_app: the bot switch, the bot threads and the /toggle-bot handlers
    bot_enabled,         \* config["bot_enabled"]
    bot_thread,          \* the global bot_thread: a thread, or 0 for None
    b_pc,                \* bot thread -> where it is in bot_loop
    t_pc,                \* request handler -> where it is in toggle_bot
    t_state,             \* request handler -> its new_state
    off_in_pass,         \* bot thread -> the switch went off during its pass and stayed off
    \* ---- MessageHandler.send_to_unmatched
    o_pc,                \* where the call is: "idle", "loop", "done"
    o_count,             \* the argument count
    o_reported,          \* what get_matches returned to this call
    o_unmatched,         \* the part of the list unmatched the loop has yet to visit
    o_sent,              \* the local sent
    o_failed,            \* the local failed
    o_result,            \* the mapping the call returned, <<>> before it returns
    o_attempted,         \* the conversations the loop body ran for, with what became of each
    openers_sent,        \* match_id -> openers the sink accepted, all calls together
    kept_empty,          \* match_id -> every call so far saw it listed without messages
    \* ---- personality.MessageGenerator._build_messages
    p_pc,                \* "args" before the call, "built" after it
    p_name,              \* the argument name
    p_bio,               \* the argument bio
    p_history,           \* the argument chat_history
    p_messages,          \* the list the call returned
    \* ---- the lookups of a personality by name
    k_pc,                \* "args" before the lookup, "resolved" after it
    k_name,              \* the name asked for
    k_config,            \* config["personality"]
    k_via,               \* the lookup that ran
    k_profile,           \* what it resolved the name to
    \* ---- a write of the DataManager that a crash may cut short
    w_pc,                \* where the write is: "idle", "assigned", "open"
    w_op,                \* the method that writes
    w_before,            \* what the stores held before the call
    w_after,             \* what they hold once the call has returned
    w_crashed,           \* the process crashed in the call and a new one has started
    \* ---- dashboard.py: BotState and the threads that run its bot_loop
    state_enabled,       \* BotState.config["bot_enabled"]
    bot_running,         \* BotState.bot_running
    state_thread,        \* BotState.bot_thread: a thread, or 0 for None
    loop_pc,             \* thread -> where it is in BotState.bot_loop
    \* ---- RateLimiter.wait_if_needed and its callers
    clock,               \* time.time()
    lock_holder,         \* the caller inside `with self._lock`, or 0
    last_request_times,  \* endpoint -> time of its last request
    r_pc,                \* caller -> "idle", "blocked", "sleep", "stamp"
    r_endpoint,          \* caller -> the endpoint of its call
    r_wake,              \* caller -> the time its sleep ends
    returned             \* endpoint -> the times of its last two returns

srcVars == <<convs, now>>
fileVars == <<chat_log_file, auto_approved_file>>
webVars == <<pending_logs, auto_approved_logs, stats>>
dmVars == <<rejected_matches, rejected_file>>
thrVars == <<pc, snap, idx, cur, processed>>
sinkVars == <<delivered, sinkCalls, failedIds, clean>>
passVars == <<lastSnap, repeat, passAuto, passSends, unseen>>
histVars == <<sinkVars, rejectedGen, approvals, passVars, epoch>>

pipeVars == <<srcVars, auto_approve, processed_messages, fileVars, webVars,
              dmVars, workers, thrVars, histVars>>
genVars == <<g_pc, via, user_name, system_prompt, attempt, got, original, alternate,
             result, calls, alt_calls, raises, sleeps>>

sanVars == <<san_text, san_reply, san_done>>
usageVars == <<usage_file, trackers, u_pc, u_arg, u_usage, u_seen, u_base,
               u_calls, rec_total, rec_by>>
ledgerVars == <<replied_messages, replied_file, conversation_cache,
                conversation_cache_file, last_mark>>
callVars == <<d_log, d_lastRej>>
loadVars == <<disk, loaded>>
botVars == <<bot_enabled, bot_thread, b_pc, t_pc, t_state, off_in_pass>>
outVars == <<o_pc, o_count, o_reported, o_unmatched, o_sent, o_failed, o_result,
            o_attempted, openers_sent, kept_empty>>
promptVars == <<p_pc, p_name, p_bio, p_history, p_messages>>
lookVars == <<k_pc, k_name, k_config, k_via, k_profile>>
crashVars == <<w_pc, w_op, w_before, w_after, w_crashed>>
stateVars == <<state_enabled, bot_running, state_thread, loop_pc>>
limitVars == <<clock, lock_holder, last_request_times, r_pc, r_endpoint, r_wake,
              returned>>
callerVars == <<outVars, promptVars, lookVars, crashVars, stateVars, limitVars>>
headNoCallers == <<pipeVars, genVars, sanVars, usageVars, ledgerVars, callVars, loadVars,
                   write_failed, shape>>
tailVars == <<botVars, callerVars>>
moreVars == <<loadVars, write_failed, shape, tailVars>>
headVars == <<pipeVars, genVars, sanVars, usageVars, ledgerVars, callVars, loadVars,
              write_failed, shape, callerVars>>
auxVars == <<sanVars, usageVars, ledgerVars, callVars, moreVars>>

nonPipeVars == <<genVars, auxVars>>
nonGenVars == <<pipeVars, auxVars>>

vars == <<pipeVars, genVars, auxVars>>

(***************************************************************************)
(* Helpers.                                                                *)
(***************************************************************************)
Min(a, b) == IF a < b THEN a ELSE b

RECURSIVE SelectRole(_, _)
\* [m for m in messages if m.get("role") == role]
SelectRole(msgs, role) ==
    IF msgs = <<>> THEN <<>>
    ELSE LET rest == SelectRole(Tail(msgs), role)
         IN IF Head(msgs).role = role THEN <<Head(msgs)>> \o rest ELSE rest

\* user_messages = [m for m in messages if m.get("role") == "user"]
UserMessages(msgs) == SelectRole(msgs, "user")

HasInbound(msgs) == UserMessages(msgs) # <<>>

\* last_user_msg = user_messages[-1]; msg_timestamp = last_user_msg["timestamp"]
LastUserTs(msgs) == UserMessages(msgs)[Len(UserMessages(msgs))].timestamp

\* msg_id = f"{match_id}_{msg_timestamp}".  ISO-8601 timestamps hold no "_",
\* so the string determines the pair and the pair stands for the string.
MsgId(match_id, timestamp) == <<match_id, timestamp>>

\* the ids of the messages the source can deliver
Ids == {MsgId(c, SrcTs(k)) : c \in Conv, k \in 1..MaxMsgs}

\* api_client.get_matches(limit): the first `limit` matches of the source.
GetMatches(limit) == SubSeq(ConvOrder, 1, Min(limit, Len(ConvOrder)))

\* _load_processed_messages: one id per line of the chat log, built from the
\* line's match_id and the line's own "timestamp" field.
LoadProcessed(lines) ==
    {MsgId(lines[i].match_id, lines[i].timestamp) : i \in DOMAIN lines}

\* DataManager.is_rejected
IsRejected(match_id) == match_id \in rejected_matches

RECURSIVE TotalLen(_, _)
\* messages in the conversations of `cs`
TotalLen(f, cs) ==
    IF cs = {} THEN 0
    ELSE LET c == CHOOSE x \in cs : TRUE IN Len(f[c]) + TotalLen(f, cs \ {c})

(***************************************************************************)
(* Initial state: a freshly started process, an empty data directory, the  *)
(* matches exist and nobody has written yet.                               *)
(***************************************************************************)
InitPipe ==
    /\ convs = [c \in Conv |-> <<>>]
    /\ now = 1
    /\ auto_approve \in BOOLEAN
    /\ processed_messages = {}
    /\ chat_log_file = <<>>
    /\ auto_approved_file = <<>>
    /\ pending_logs = <<>>
    /\ auto_approved_logs = <<>>
    /\ stats = [total_approved |-> 0, total_replied |-> 0, total_rejected |-> 0]
    /\ rejected_matches = {}
    /\ rejected_file = {}
    /\ pc = [th \in Threads |-> "idle"]
    /\ snap = [th \in Threads |-> [c \in Conv |-> <<>>]]
    /\ idx = [th \in Threads |-> 1]
    /\ cur = [th \in Threads |-> NoCur]
    /\ processed = [th \in Threads |-> <<>>]
    /\ delivered = {}
    /\ sinkCalls = [id \in Ids |-> 0]
    /\ failedIds = {}
    /\ clean = TRUE
    /\ rejectedGen = {}
    /\ approvals = <<>>
    /\ lastSnap = <<>>
    /\ repeat = [th \in Threads |-> FALSE]
    /\ passAuto = [th \in Threads |-> "off"]
    /\ passSends = [th \in Threads |-> 0]
    /\ unseen = [th \in Threads |-> {}]
    /\ epoch = 0

(***************************************************************************)
(* Conversation Source: a counterpart (role "user") or the account itself  *)
(* (role "assistant") adds a message; the list is append-only.  A pass     *)
(* reads the source once, in get_matches (line 65): a message that comes   *)
(* in while a pass runs is seen as one that comes in after it, and is      *)
(* modelled so.                                                            *)
(***************************************************************************)
Arrive(c, role) ==
    /\ \A th \in Threads : pc[th] = "idle"
    /\ TotalLen(convs, Conv) < MaxMsgs
    /\ convs' = [convs EXCEPT ![c] =
                    Append(@, [role |-> role, timestamp |-> SrcTs(Len(@) + 1)])]
    /\ UNCHANGED <<now, auto_approve, processed_messages, fileVars, webVars,
                   dmVars, workers, thrVars, histVars>>
    /\ UNCHANGED nonPipeVars

(***************************************************************************)
(* MessageHandler.process_new_messages, one step per access to shared      *)
(* state.                                                                  *)
(***************************************************************************)
\* lines 61-71: processed = []; matches = api_client.get_matches(limit)
StartPass(th) ==
    /\ th \in workers
    /\ pc[th] = "idle"
    /\ snap' = [snap EXCEPT ![th] = convs]
    /\ idx' = [idx EXCEPT ![th] = 1]
    /\ processed' = [processed EXCEPT ![th] = <<>>]
    /\ cur' = [cur EXCEPT ![th] = NoCur]
    /\ pc' = [pc EXCEPT ![th] = "match"]
    /\ repeat' = [repeat EXCEPT ![th] = (lastSnap = convs)]
    /\ passAuto' = [passAuto EXCEPT ![th] = IF auto_approve THEN "on" ELSE "off"]
    /\ passSends' = [passSends EXCEPT ![th] = 0]
    /\ unseen' = [unseen EXCEPT ![th] = {}]
    /\ UNCHANGED <<srcVars, auto_approve, processed_messages, fileVars, webVars,
                   dmVars, workers, sinkVars, rejectedGen, approvals, lastSnap,
                   epoch>>
    /\ UNCHANGED nonPipeVars

\* lines 73-100: the filters of one match, up to the dedup check.
\* TRUE iff the loop body `continue`s before generating.
Skips(messages, match_id, seen) ==
    \/ messages = <<>>                                   \* line 82
    \/ ~HasInbound(messages)                             \* line 88
    \/ MsgId(match_id, LastUserTs(messages)) \in seen    \* line 99

NextMatch(th) ==
    /\ pc[th] = "match"
    /\ idx[th] <= Len(GetMatches(MatchLimit))
    /\ LET match_id == GetMatches(MatchLimit)[idx[th]]
           messages == snap[th][match_id]
       IN IF Skips(messages, match_id, processed_messages)
          THEN /\ idx' = [idx EXCEPT ![th] = @ + 1]
               /\ UNCHANGED <<pc, cur, unseen>>
          ELSE /\ cur' = [cur EXCEPT ![th] =
                          [match_id |-> match_id,
                           msg_timestamp |-> LastUserTs(messages),
                           log_entry |-> <<>>]]
               /\ pc' = [pc EXCEPT ![th] = "gen"]
               /\ unseen' = [unseen EXCEPT ![th] = @ \cup {match_id}]
               /\ UNCHANGED idx
    /\ UNCHANGED <<srcVars, auto_approve, processed_messages, fileVars, webVars,
                   dmVars, workers, snap, processed, sinkVars, rejectedGen,
                   approvals, lastSnap, repeat, passAuto, passSends, epoch>>
    /\ UNCHANGED nonPipeVars

\* what get_matches may hand over for a match: a mapping with fields of the
\* right types, a mapping one of whose fields has a type the loop body cannot
\* use (messages that is a number, a message that is a string), or a value
\* that is no mapping (None, a string)
Shapes == {"mapping", "wrong_types", "no_mapping"}

\* lines 73-153 on the record at idx.  A mapping with bad fields raises in
\* lines 75-102, before generate_reply; the handler of lines 151-153 logs
\* match.get('match_id') and continues.  On a value that is no mapping
\* match.get raises at line 75 and again inside the handler at line 152; that
\* exception leaves the loop for the handler of lines 157-158 and line 160
\* returns what was collected.
NextRecord(th) ==
    /\ pc[th] = "match"
    /\ idx[th] <= Len(GetMatches(MatchLimit))
    /\ LET match_id == GetMatches(MatchLimit)[idx[th]]
       IN IF shape[match_id] = "mapping"
          THEN NextMatch(th)
          ELSE /\ idx' = [idx EXCEPT ![th] =
                            IF shape[match_id] = "wrong_types"
                            THEN @ + 1
                            ELSE Len(GetMatches(MatchLimit)) + 1]
               /\ UNCHANGED <<srcVars, auto_approve, processed_messages,
                              fileVars, webVars, dmVars, workers, pc, snap, cur,
                              processed, histVars>>
               /\ UNCHANGED nonPipeVars

\* lines 104-122: generate_reply, then the log entry (clock and config read)
Generate(th) ==
    /\ pc[th] = "gen"
    /\ cur' = [cur EXCEPT ![th].log_entry =
                  [match_id |-> cur[th].match_id,
                   bot_reply |-> Draft(cur[th].match_id, cur[th].msg_timestamp),
                   timestamp |-> LocalTs(now),
                   auto |-> auto_approve,
                   sent |-> FALSE]]
    /\ now' = now + 1
    /\ rejectedGen' = IF IsRejected(cur[th].match_id)
                      THEN rejectedGen \cup {cur[th].match_id}
                      ELSE rejectedGen
    /\ pc' = [pc EXCEPT ![th] = "send"]
    /\ UNCHANGED <<convs, auto_approve, processed_messages, fileVars, webVars,
                   dmVars, workers, snap, idx, processed, sinkVars, approvals,
                   passVars, epoch>>
    /\ UNCHANGED nonPipeVars

\* json.dumps(log_entry) as the model keeps it: the two fields a line is
\* identified by, the only ones the program ever reads back, and whether the
\* entry was marked sent.
FileLine(log_entry) ==
    [match_id |-> log_entry.match_id, timestamp |-> log_entry.timestamp,
     sent |-> log_entry.sent]

\* a dispatch that ignores the switch
ShouldSendAlways(flag) == TRUE

\* line 125: `if config.get("auto_approve", False):`
ShouldSend(flag) == flag

\* lines 124-134: if auto_approve, _send_reply; on success mark the entry
\* sent and append it to the auto-approved log.  _send_reply (162-173)
\* returns the Sink's answer, False when the Sink raises.  `saved` tells
\* whether the write of _save_to_auto_approved (183-189) succeeds; when it
\* raises the method logs the error and returns.
DispatchWith(th, saved) ==
    /\ pc[th] = "send"
    /\ LET msg_id == MsgId(cur[th].match_id, cur[th].msg_timestamp)
       IN IF ShouldSend(auto_approve)
          THEN \E success \in BOOLEAN :
                 /\ sinkCalls' = [sinkCalls EXCEPT ![msg_id] = @ + 1]
                 /\ passSends' = [passSends EXCEPT ![th] = @ + 1]
                 /\ clean' = (clean /\ success)
                 /\ IF success
                    THEN /\ cur' = [cur EXCEPT ![th].log_entry.sent = TRUE]
                         /\ auto_approved_file' =
                               IF saved
                               THEN Append(auto_approved_file,
                                           FileLine([cur[th].log_entry
                                                       EXCEPT !.sent = TRUE]))
                               ELSE auto_approved_file
                         /\ write_failed' = IF saved THEN write_failed
                                            ELSE write_failed \cup {msg_id}
                         /\ delivered' = delivered \cup {msg_id}
                         /\ failedIds' = failedIds \ {msg_id}
                    ELSE /\ failedIds' = failedIds \cup {msg_id}
                         /\ UNCHANGED <<cur, auto_approved_file, delivered,
                                        write_failed>>
          ELSE /\ clean' = FALSE
               /\ UNCHANGED <<sinkCalls, passSends, cur, auto_approved_file,
                              delivered, failedIds, write_failed>>
    /\ pc' = [pc EXCEPT ![th] = "mark"]
    /\ UNCHANGED <<srcVars, auto_approve, processed_messages, chat_log_file,
                   webVars, dmVars, workers, snap, idx, processed, rejectedGen,
                   approvals, lastSnap, repeat, passAuto, unseen, epoch>>
    /\ UNCHANGED <<genVars, sanVars, usageVars, ledgerVars, callVars, loadVars, shape,
                   tailVars>>

\* the step when every write succeeds
Dispatch(th) == DispatchWith(th, TRUE)

\* a loop body that forgets to record the id
MarkProcessedForgets(seen, msg_id) == seen

\* line 137: self.processed_messages.add(msg_id)
MarkProcessed(seen, msg_id) == seen \cup {msg_id}

\* lines 136-149: mark as processed, append to the chat log, collect.
\* `written` tells whether the write of _save_to_chat_log (175-181) succeeds;
\* when it raises the method logs the error and returns.
MarkWith(th, written) ==
    /\ pc[th] = "mark"
    /\ processed_messages' =
          MarkProcessed(processed_messages,
                        MsgId(cur[th].match_id, cur[th].msg_timestamp))
    /\ chat_log_file' = IF written
                        THEN Append(chat_log_file, FileLine(cur[th].log_entry))
                        ELSE chat_log_file
    /\ write_failed' =
          IF written THEN write_failed
          ELSE write_failed \cup {MsgId(cur[th].match_id, cur[th].msg_timestamp)}
    /\ processed' = [processed EXCEPT ![th] = Append(@, cur[th].log_entry)]
    /\ idx' = [idx EXCEPT ![th] = @ + 1]
    /\ cur' = [cur EXCEPT ![th] = NoCur]
    /\ pc' = [pc EXCEPT ![th] = "match"]
    /\ UNCHANGED <<srcVars, auto_approve, auto_approved_file, webVars, dmVars,
                   workers, snap, histVars>>
    /\ UNCHANGED <<genVars, sanVars, usageVars, ledgerVars, callVars, loadVars, shape,
                   tailVars>>

\* the step when the write succeeds
Mark(th) == MarkWith(th, TRUE)

RECURSIVE SelectAuto(_, _)
\* the entries of `logs` whose "auto" field equals `flag`, in order
SelectAuto(logs, flag) ==
    IF logs = <<>> THEN <<>>
    ELSE LET rest == SelectAuto(Tail(logs), flag)
         IN IF Head(logs).auto = flag THEN <<Head(logs)>> \o rest ELSE rest

\* web_app.bot_loop lines 59-63: what the loop appends to pending_logs
FiledPending(logs) == SelectAuto(logs, FALSE)

\* web_app.bot_loop lines 59-63: what the loop appends to auto_approved_logs
FiledAuto(logs) == SelectAuto(logs, TRUE)

\* line 160 and web_app.bot_loop lines 56-63: the pass returns its entries
\* and the loop files each under auto_approved_logs or pending_logs.
Return(th) ==
    /\ pc[th] = "match"
    /\ idx[th] > Len(GetMatches(MatchLimit))
    /\ auto_approved_logs' = auto_approved_logs \o FiledAuto(processed[th])
    /\ pending_logs' = pending_logs \o FiledPending(processed[th])
    /\ lastSnap' = snap[th]
    /\ pc' = [pc EXCEPT ![th] = "idle"]
    /\ UNCHANGED <<srcVars, auto_approve, processed_messages, fileVars, stats,
                   dmVars, workers, snap, idx, cur, processed, sinkVars,
                   rejectedGen, approvals, repeat, passAuto, passSends, unseen,
                   epoch>>
    /\ UNCHANGED nonPipeVars

(***************************************************************************)
(* Dashboard requests (web_app.py).                                        *)
(***************************************************************************)
\* toggle_auto_approve, lines 109-116: config.set("auto_approve", state)
ToggleAutoApprove(state) ==
    /\ auto_approve' = state
    /\ passAuto' = [th \in Threads |->
                      IF pc[th] # "idle"
                         /\ passAuto[th] # (IF state THEN "on" ELSE "off")
                      THEN "mixed" ELSE passAuto[th]]
    /\ UNCHANGED <<srcVars, processed_messages, fileVars, webVars, dmVars,
                   workers, thrVars, sinkVars, rejectedGen, approvals, lastSnap,
                   repeat, passSends, unseen, epoch>>
    /\ UNCHANGED nonPipeVars

RECURSIVE WithoutMatch(_, _)
\* [l for l in pending_logs if l["match_id"] != match_id]
WithoutMatch(logs, match_id) ==
    IF logs = <<>> THEN <<>>
    ELSE LET rest == WithoutMatch(Tail(logs), match_id)
         IN IF Head(logs).match_id # match_id THEN <<Head(logs)>> \o rest
            ELSE rest

RECURSIVE FirstOf(_, _)
\* the first log of pending_logs with this match_id (the loop with break);
\* <<>> when there is none (match_log = None)
FirstOf(logs, match_id) ==
    IF logs = <<>> THEN <<>>
    ELSE IF Head(logs).match_id = match_id THEN <<Head(logs)>>
    ELSE FirstOf(Tail(logs), match_id)

\* approve_match, lines 169-200
ApproveMatch(match_id) ==
    /\ LET found == FirstOf(pending_logs, match_id)
       IN IF found = <<>>
          THEN UNCHANGED <<pending_logs, auto_approved_logs, stats, approvals>>
          ELSE \E sent_ok \in BOOLEAN :
                 /\ approvals' = Append(approvals,
                                        [match_id |-> match_id,
                                         reply |-> found[1].bot_reply,
                                         ok |-> sent_ok])
                 /\ IF sent_ok
                    THEN /\ stats' = [stats EXCEPT !.total_approved = @ + 1,
                                                   !.total_replied = @ + 1]
                         /\ pending_logs' = WithoutMatch(pending_logs, match_id)
                         /\ auto_approved_logs' =
                               IF auto_approve
                               THEN Append(auto_approved_logs,
                                           [found[1] EXCEPT !.auto = TRUE])
                               ELSE auto_approved_logs
                    ELSE UNCHANGED <<pending_logs, auto_approved_logs, stats>>
    /\ UNCHANGED <<srcVars, auto_approve, processed_messages, fileVars, dmVars,
                   workers, thrVars, sinkVars, rejectedGen, passVars, epoch>>
    /\ UNCHANGED nonPipeVars

\* reject_match, lines 203-214
RejectMatch(match_id) ==
    /\ stats.total_rejected < MaxRejects
    /\ pending_logs' = WithoutMatch(pending_logs, match_id)
    /\ stats' = [stats EXCEPT !.total_rejected = @ + 1]
    /\ UNCHANGED <<srcVars, auto_approve, processed_messages, fileVars,
                   auto_approved_logs, dmVars, workers, thrVars, histVars>>
    /\ UNCHANGED nonPipeVars

(***************************************************************************)
(* DataManager (utils/data_manager.py): the rejected set.                  *)
(***************************************************************************)
\* a call on the DataManager, as the call history keeps it
Call(op, match_id, message_time) == [op |-> op, id |-> match_id, t |-> message_time]

\* the history after one more call: the last two calls
Push(log, call) == IF Len(log) < 2 THEN Append(log, call) ELSE <<log[2], call>>

\* a set.add that forgets the other members
AddRejectedAlone(rejected, match_id) == {match_id}

\* line 83: self.rejected_matches.add(match_id)
AddRejected(rejected, match_id) == rejected \cup {match_id}

\* line 91: self.rejected_matches.discard(match_id)
DiscardRejected(rejected, match_id) == rejected \ {match_id}

\* mark_rejected, lines 80-86
MarkRejected(match_id) ==
    /\ rejected_matches' = AddRejected(rejected_matches, match_id)
    /\ rejected_file' = rejected_matches'
    /\ d_log' = Push(d_log, Call("mark_rejected", match_id, ""))
    /\ d_lastRej' = [d_lastRej EXCEPT ![match_id] = "mark_rejected"]
    /\ UNCHANGED <<srcVars, auto_approve, processed_messages, fileVars, webVars,
                   workers, thrVars, histVars>>
    /\ UNCHANGED <<genVars, sanVars, usageVars, ledgerVars, moreVars>>

\* remove_rejected, lines 88-94
RemoveRejected(match_id) ==
    /\ rejected_matches' = DiscardRejected(rejected_matches, match_id)
    /\ rejected_file' = rejected_matches'
    /\ d_log' = Push(d_log, Call("remove_rejected", match_id, ""))
    /\ d_lastRej' = [d_lastRej EXCEPT ![match_id] = "remove_rejected"]
    /\ UNCHANGED <<srcVars, auto_approve, processed_messages, fileVars, webVars,
                   workers, thrVars, histVars>>
    /\ UNCHANGED <<genVars, sanVars, usageVars, ledgerVars, moreVars>>

(***************************************************************************)
(* DataManager (utils/data_manager.py): the reply ledger.  The file is     *)
(* missing, unreadable as JSON, or a JSON object, kept as the set of its   *)
(* members <<key, value>>.                                                 *)
(***************************************************************************)
Times == {"T1", "T2"}

MissingLedger == [kind |-> "missing", members |-> {}]
CorruptLedger == [kind |-> "corrupt", members |-> {}]

\* a dump that writes the empty object
DumpEmpty(dict) == [kind |-> "json", members |-> {}]

\* json.dump(dict, f)
Dump(dict) == [kind |-> "json", members |-> {<<k, dict[k]>> : k \in DOMAIN dict}]

\* _load_replied, lines 27-35: the object of the file, {} when the file is
\* missing or cannot be read
LoadReplied(file) ==
    IF file.kind = "json"
    THEN [k \in {p[1] : p \in file.members} |->
             (CHOOSE p \in file.members : p[1] = k)[2]]
    ELSE <<>>

\* an assignment that keeps no other entry
SetRepliedAlone(dict, match_id, message_time) ==
    [k \in {match_id} |-> message_time]

\* line 70: self.replied_messages[match_id] = message_time
SetReplied(dict, match_id, message_time) ==
    [k \in DOMAIN dict \cup {match_id} |->
        IF k = match_id THEN message_time ELSE dict[k]]

\* a query that looks at the conversation alone, as has_ever_replied_to does
RepliedInEver(dict, match_id, message_time) == match_id \in DOMAIN dict

\* has_replied_to, lines 57-60, on a ledger
RepliedIn(dict, match_id, message_time) ==
    match_id \in DOMAIN dict /\ dict[match_id] = message_time

\* has_replied_to, lines 57-60
HasRepliedTo(match_id, message_time) ==
    RepliedIn(replied_messages, match_id, message_time)

InitLedger ==
    /\ replied_messages = <<>>
    /\ replied_file = Dump(<<>>)
    /\ conversation_cache = <<>>
    /\ conversation_cache_file = Dump(<<>>)
    /\ last_mark = [c \in Conv |-> "none"]
    /\ d_log = <<>>
    /\ d_lastRej = [c \in Conv |-> "none"]

\* mark_replied, lines 67-73
MarkReplied(match_id, message_time) ==
    /\ replied_messages' = SetReplied(replied_messages, match_id, message_time)
    /\ replied_file' = Dump(replied_messages')
    /\ last_mark' = [last_mark EXCEPT ![match_id] = message_time]
    /\ d_log' = Push(d_log, Call("mark_replied", match_id, message_time))
    /\ UNCHANGED <<conversation_cache, conversation_cache_file, d_lastRej>>
    /\ UNCHANGED <<pipeVars, genVars, sanVars, usageVars, moreVars>>

\* clear_all_data, lines 116-131
ClearAllData ==
    /\ replied_messages' = <<>>
    /\ rejected_matches' = {}
    /\ conversation_cache' = <<>>
    /\ replied_file' = Dump(<<>>)
    /\ rejected_file' = {}
    /\ conversation_cache_file' = Dump(<<>>)
    /\ last_mark' = [c \in Conv |-> "none"]
    /\ d_lastRej' = [c \in Conv |-> "none"]
    /\ d_log' = Push(d_log, Call("clear_all_data", "", ""))
    /\ UNCHANGED <<srcVars, auto_approve, processed_messages, fileVars, webVars,
                   workers, thrVars, histVars>>
    /\ UNCHANGED <<genVars, sanVars, usageVars, moreVars>>

\* the process ends and a new DataManager is constructed, lines 13-25
NewDataManager ==
    /\ replied_messages' = LoadReplied(replied_file)
    /\ rejected_matches' = rejected_file
    /\ conversation_cache' = LoadReplied(conversation_cache_file)
    /\ d_log' = Push(d_log, Call("__init__", "", ""))
    /\ UNCHANGED <<replied_file, conversation_cache_file, last_mark, d_lastRej>>
    /\ UNCHANGED <<srcVars, auto_approve, processed_messages, fileVars, webVars,
                   rejected_file, workers, thrVars, histVars>>
    /\ UNCHANGED <<genVars, sanVars, usageVars, moreVars>>

(***************************************************************************)
(* The reply generators: MessageGenerator of src/personality.py and        *)
(* ClaudeHandler of src/claude_handler.py.  A text is a sequence of        *)
(* characters, each a one-character string; a character outside ASCII is   *)
(* written as its code point ("U+0160").                                   *)
(***************************************************************************)
\* __init__, lines 26-40: self.refusal_patterns
refusal_patterns == <<
    <<"i", " ", "d", "o", " ", "n", "o", "t", " ", "f", "e", "e", "l", " ",
      "c", "o", "m", "f", "o", "r", "t", "a", "b", "l", "e">>,
    <<"i", "'", "m", " ", "s", "o", "r", "r", "y">>,
    <<"u", "n", "a", "b", "l", "e", " ", "t", "o">>,
    <<"c", "a", "n", "n", "o", "t", " ", "c", "o", "n", "t", "i", "n", "u",
      "e">>,
    <<"i", " ", "d", "o", " ", "n", "o", "t", " ", "a", "c", "t", "u", "a",
      "l", "l", "y", " ", "h", "a", "v", "e", " ", "t", "h", "e", " ", "a",
      "b", "i", "l", "i", "t", "y">>,
    <<"i", " ", "s", "h", "o", "u", "l", "d", " ", "h", "a", "v", "e", " ",
      "b", "e", "e", "n", " ", "m", "o", "r", "e", " ", "d", "i", "r", "e",
      "c", "t">>,
    <<"i", " ", "d", "o", " ", "n", "o", "t", " ", "e", "n", "g", "a", "g",
      "e", " ", "i", "n", " ", "r", "o", "l", "e", "p", "l", "a", "y">>,
    <<"i", "'", "m", " ", "n", "o", "t", " ", "a", "c", "t", "u", "a", "l",
      "l", "y", " ", "a", " ", "r", "e", "a", "l", " ", "p", "e", "r", "s",
      "o", "n">>,
    <<"i", " ", "c", "a", "n", "n", "o", "t", " ", "s", "e", "n", "d", " ",
      "r", "e", "a", "l", " ", "m", "e", "s", "s", "a", "g", "e", "s">>,
    <<"i", " ", "c", "a", "n", "n", "o", "t", " ", "m", "a", "k", "e", " ",
      "r", "e", "a", "l", " ", "p", "h", "o", "n", "e", " ", "c", "a", "l",
      "l", "s">>,
    <<"i", " ", "a", "m", " ", "a", "n", " ", "a", "i", " ", "p", "r", "o",
      "g", "r", "a", "m">>,
    <<"a", "s", " ", "a", "n", " ", "a", "i">>,
    <<"l", "a", "n", "g", "u", "a", "g", "e", " ", "m", "o", "d", "e", "l">> >>

UpperChars == <<"A", "B", "C", "D", "E", "F", "G", "H", "I", "J", "K", "L", "M",
                "N", "O", "P", "Q", "R", "S", "T", "U", "V", "W", "X", "Y", "Z",
                "U+0160", "U+0178">>
LowerChars == <<"a", "b", "c", "d", "e", "f", "g", "h", "i", "j", "k", "l", "m",
                "n", "o", "p", "q", "r", "s", "t", "u", "v", "w", "x", "y", "z",
                "U+0161", "U+00FF">>

LowerMap ==
    [ch \in {UpperChars[i] : i \in DOMAIN UpperChars} |->
        LowerChars[CHOOSE i \in DOMAIN UpperChars : UpperChars[i] = ch]]

LowerChar(ch) == IF ch \in DOMAIN LowerMap THEN LowerMap[ch] ELSE ch

\* str.lower()
Lower(text) ==
    LET lowered == [i \in 1..Len(text) |-> LowerChar(text[i])]
    IN SubSeq(lowered, 1, Len(text))

\* re.search(pattern, text) for a pattern without metacharacters
Search(pattern, text) ==
    \E i \in 1..(Len(text) - Len(pattern) + 1) :
        \A j \in 1..Len(pattern) : text[i + j - 1] = pattern[j]

\* _is_refusal, lines 180-183
IsRefusal(text) ==
    LET text_lower == Lower(text)
    IN \E k \in DOMAIN refusal_patterns : Search(refusal_patterns[k], text_lower)

\* the characters str.split() and str.strip() take for white space
Whitespace == {" ", "\t", "\n", "\r", "\f"}

\* the first asterisk of text at or after position from, 0 if there is none
NextStar(text, from) ==
    IF \E j \in from..Len(text) : text[j] = "*"
    THEN CHOOSE j \in from..Len(text) :
            /\ text[j] = "*"
            /\ \A k \in from..(j - 1) : text[k] # "*"
    ELSE 0

RECURSIVE Gather(_, _, _)
\* ''.join(pieces[lo..hi])
Gather(pieces, lo, hi) ==
    IF lo > hi THEN <<>>
    ELSE IF lo = hi THEN pieces[lo]
    ELSE LET mid == (lo + hi) \div 2
         IN Gather(pieces, lo, mid) \o Gather(pieces, mid + 1, hi)

RECURSIVE Matched(_, _)
\* the positions the matches of r'\*[^*]+\*' cover in text, scanning from
\* position i as re.sub does: the leftmost match is taken and the scan goes
\* on behind it; an asterisk followed at once by another one opens no match
Matched(text, i) ==
    LET open == NextStar(text, i)
        close == IF open = 0 THEN 0 ELSE NextStar(text, open + 1)
    IN IF close = 0 THEN {}
       ELSE IF close > open + 1 THEN (open..close) \cup Matched(text, close + 1)
       ELSE Matched(text, open + 1)

\* line 188: re.sub(r'\*[^*]+\*', '', text)
SubActions(text) ==
    LET gone == Matched(text, 1)
    IN Gather([i \in 1..Len(text) |-> IF i \in gone THEN <<>> ELSE <<text[i]>>],
              1, Len(text))

\* white space left as it came
KeepSpaces(text) == text

\* line 191: ' '.join(text.split()): every run of white space between two
\* words becomes one blank, the runs at the ends vanish
JoinSplit(text) ==
    LET word(i) == text[i] \notin Whitespace
        piece(i) ==
            IF word(i) THEN <<text[i]>>
            ELSE IF /\ i < Len(text) /\ word(i + 1)
                    /\ \E j \in 1..(i - 1) : word(j)
                 THEN <<" ">> ELSE <<>>
    IN Gather([i \in 1..Len(text) |-> piece(i)], 1, Len(text))

\* lines 194-195: if text and not text[-1] in '.!?': text += '.'
EndProperly(text) ==
    IF text # <<>> /\ text[Len(text)] \notin {".", "!", "?"}
    THEN Append(text, ".") ELSE text

\* str.strip()
Strip(text) ==
    LET words == {i \in 1..Len(text) : text[i] \notin Whitespace}
    IN IF words = {} THEN <<>>
       ELSE SubSeq(text, CHOOSE i \in words : \A j \in words : i <= j,
                         CHOOSE i \in words : \A j \in words : j <= i)

\* _sanitize_reply, lines 185-197
SanitizeReply(text) == Strip(EndProperly(JoinSplit(SubActions(text))))

\* _generate_fallback, lines 199-207: the list `fallbacks`
Fallbacks(name) == <<
    <<"H", "e", "y", " ">>
      \o name
      \o <<"!", " ", "H", "o", "w", "'", "s", " ", "y", "o", "u", "r", " ",
          "e", "v", "e", "n", "i", "n", "g", " ", "g", "o", "i", "n", "g",
          "?", " ", "U+00F0", "U+0178", "U+02DC", "U+0160">>,
    <<"W", "e", "l", "l", " ", "h", "e", "l", "l", "o", " ", "t", "h",
          "e", "r", "e", " ">>
      \o name
      \o <<" ", "U+00F0", "U+0178", "U+02DC", "U+2030", " ", "W", "h", "a",
          "t", " ", "b", "r", "i", "n", "g", "s", " ", "y", "o", "u", " ",
          "t", "o", " ", "T", "i", "n", "d", "e", "r", "?">>,
    name
      \o <<"!", " ", "L", "o", "v", "e", " ", "t", "h", "e", " ", "v", "i",
          "b", "e", " ", "o", "f", " ", "y", "o", "u", "r", " ", "p", "r",
          "o", "f", "i", "l", "e", ".", " ", "W", "h", "a", "t", "'", "s",
          " ", "b", "e", "e", "n", " ", "t", "h", "e", " ", "h", "i", "g",
          "h", "l", "i", "g", "h", "t", " ", "o", "f", " ", "y", "o", "u",
          "r", " ", "w", "e", "e", "k", "?">>,
    <<"H", "i", " ">>
      \o name
      \o <<"!", " ", "Y", "o", "u", " ", "s", "e", "e", "m", " ", "i", "n",
          "t", "e", "r", "e", "s", "t", "i", "n", "g", ".", " ", "T", "e",
          "l", "l", " ", "m", "e", " ", "s", "o", "m", "e", "t", "h", "i",
          "n", "g", " ", "r", "a", "n", "d", "o", "m", " ", "a", "b", "o",
          "u", "t", " ", "y", "o", "u", "r", "s", "e", "l", "f", "?">>,
    <<"H", "e", "y", " ">>
      \o name
      \o <<",", " ", "f", "a", "n", "c", "y", " ", "a", " ", "c", "h", "a",
          "t", "?", " ", "W", "h", "a", "t", "'", "s", " ", "y", "o", "u",
          "r", " ", "i", "d", "e", "a", " ", "o", "f", " ", "a", " ", "p",
          "e", "r", "f", "e", "c", "t", " ", "F", "r", "i", "d", "a", "y",
          " ", "n", "i", "g", "h", "t", "?">> >>

\* the fallback pool for a recipient
FallbackPool(name) == {Fallbacks(name)[k] : k \in DOMAIN Fallbacks(user_name)}

\* ClaudeHandler.generate_reply, line 21: the reply without an API key
UnavailableReply(name) ==
    <<"H", "e", "y", " ">>
      \o name
      \o <<"!", " ", "H", "o", "w", "'", "s", " ", "i", "t", " ", "g", "o",
          "i", "n", "g", "?", " ", "U+1F60A">>

\* ClaudeHandler.generate_reply, line 52: the reply after an API error
ErrorReply(name) ==
    <<"H", "e", "y", " ">>
      \o name
      \o <<"!", " ", "T", "h", "a", "t", "'", "s", " ", "i", "n", "t", "e",
          "r", "e", "s", "t", "i", "n", "g", ",", " ", "t", "e", "l", "l",
          " ", "m", "e", " ", "m", "o", "r", "e", " ", "U+1F60A">>

\* recipients' names
Names == {<<"S", "a", "m">>, <<"J", "o">>}

\* the pieces the texts of the backend are made of
Chunks == {<<"U", "n", "a", "b", "l", "e">>, <<" ">>, <<" ", "t", "o", ".">>, <<"*">>}

RECURSIVE TextsUpTo(_)
TextsUpTo(n) ==
    IF n = 0 THEN {<<>>}
    ELSE LET shorter == TextsUpTo(n - 1)
         IN shorter \cup {t \o c : t \in shorter, c \in Chunks}

\* result["content"][0]["text"]: every text the backend may answer with
Texts == TextsUpTo(MaxChunks)

\* one text of each kind: empty, blank, plain, a lone asterisk, a refusal
SampleTexts ==
    TextsUpTo(1) \cup {<<"U", "n", "a", "b", "l", "e", " ", "t", "o", ".">>}

\* the personalities a caller asks for
Personalities == {"default", "flirty"}

\* src/config.py, lines 119-162: the names of the profiles in PERSONALITIES
Catalogue == {"default", "flirty", "funny", "gentle", "dominant", "casual"}

\* src/personality.py, line 53: PERSONALITIES.get(personality,
\* PERSONALITIES["default"]); a profile is written as its name in PERSONALITIES
PersonalitiesGet(personality) ==
    IF personality \in Catalogue THEN personality ELSE "default"

\* src/config.py, lines 119-162: only the default profile has a system_prompt
DefaultPrompt == <<"Your name is Josh ...", "current_time", "current_date">>

\* lines 53-58 and 73-75, with _render_time_aware_prompt (lines 95-105): the
\* profile's system_prompt, "" for a profile that has none
RenderPrompt(personality) ==
    IF PersonalitiesGet(personality) = "default" THEN DefaultPrompt ELSE <<>>

\* a backoff that does not grow
Pow2Flat(n) == 1

RECURSIVE Pow2(_)
\* line 90: 2 ** attempt
Pow2(n) == IF n = 0 THEN 1 ELSE 2 * Pow2(n - 1)

\* a last line that sanitises the fallback as line 83 does
FinalFallbackSanitized(n, k) == SanitizeReply(Fallbacks(n)[k])

\* line 93: return self._generate_fallback(name), k the template random.choice
\* takes
FinalFallback(n, k) == Fallbacks(n)[k]

\* lines 78-80: the reply after the alternate-personality call
AfterRetry(reply, n, k) == IF IsRefusal(reply) THEN Fallbacks(n)[k] ELSE reply

InitGenerator ==
    /\ g_pc = "idle"
    /\ via = "none"
    /\ user_name = <<>>
    /\ system_prompt = <<>>
    /\ attempt = 0
    /\ got = 0
    /\ original = <<>>
    /\ alternate = <<>>
    /\ result = <<>>
    /\ calls = 0
    /\ alt_calls = 0
    /\ raises = 0
    /\ sleeps = <<>>

\* lines 42-65: generate_reply(name, ..., personality) up to the first attempt
GenerateReply(n, personality) ==
    /\ g_pc = "idle"
    /\ via' = "MessageGenerator"
    /\ user_name' = n
    /\ system_prompt' = RenderPrompt(personality)
    /\ attempt' = 0
    /\ g_pc' = "call"
    /\ UNCHANGED <<got, original, alternate, result, calls, alt_calls, raises,
                   sleeps>>
    /\ UNCHANGED nonGenVars

\* lines 67-70 and 83-85: _call_claude returns (line 170 strips the text);
\* a refusal goes on to the alternate-personality call, any other reply is
\* sanitised and returned
CallReturnsGen(texts) ==
    /\ g_pc = "call"
    /\ \E text \in texts :
          LET reply == Strip(text)
          IN /\ original' = reply
             /\ IF IsRefusal(reply)
                THEN /\ system_prompt' = RenderPrompt("flirty")
                     /\ g_pc' = "retry_call"
                     /\ UNCHANGED result
                ELSE /\ result' = SanitizeReply(reply)
                     /\ g_pc' = "returned"
                     /\ UNCHANGED system_prompt
    /\ calls' = calls + 1
    /\ got' = 1
    /\ UNCHANGED <<via, user_name, attempt, alternate, alt_calls, raises, sleeps>>

\* the step where nothing else of the program is looked at
CallReturnsOf(texts) == CallReturnsGen(texts) /\ UNCHANGED nonGenVars

\* lines 76-85: the alternate-personality call returns; a second refusal is
\* replaced by a fallback; the reply is sanitised and returned
RetryReturnsGen(texts) ==
    /\ g_pc = "retry_call"
    /\ \E text \in texts :
          LET reply == Strip(text)
          IN /\ alternate' = reply
             /\ \E k \in IF IsRefusal(reply) THEN DOMAIN Fallbacks(user_name)
                                             ELSE {1} :
                   result' = SanitizeReply(AfterRetry(reply, user_name, k))
    /\ calls' = calls + 1
    /\ alt_calls' = alt_calls + 1
    /\ got' = 2
    /\ g_pc' = "returned"
    /\ UNCHANGED <<via, user_name, system_prompt, attempt, original, raises, sleeps>>

\* the step where nothing else of the program is looked at
RetryReturnsOf(texts) == RetryReturnsGen(texts) /\ UNCHANGED nonGenVars

\* the two steps with every text of the model
CallReturns == CallReturnsOf(Texts)
RetryReturns == RetryReturnsOf(Texts)

\* lines 87-93: either call of the attempt raises; the loop sleeps and goes
\* on, and behind the last attempt the fallback is returned
CallRaises ==
    /\ g_pc \in {"call", "retry_call"}
    /\ calls' = calls + 1
    /\ alt_calls' = IF g_pc = "retry_call" THEN alt_calls + 1 ELSE alt_calls
    /\ raises' = raises + 1
    /\ got' = 0
    /\ original' = <<>>
    /\ alternate' = <<>>
    /\ sleeps' = IF attempt < max_retries - 1
                 THEN Append(sleeps, Pow2(attempt)) ELSE sleeps
    /\ attempt' = attempt + 1
    /\ IF attempt + 1 < max_retries
       THEN /\ g_pc' = "call"
            /\ UNCHANGED result
       ELSE /\ g_pc' = "returned"
            /\ \E k \in DOMAIN Fallbacks(user_name) : result' = FinalFallback(user_name, k)
    /\ UNCHANGED <<via, user_name, system_prompt>>
    /\ UNCHANGED nonGenVars

\* ClaudeHandler.generate_reply, lines 17-52.  outcome: "unavailable" (no API
\* key), "raises" (the API call fails), "returns" (the API answers a text)
ClaudeHandlerReply(outcome) ==
    /\ g_pc = "idle"
    /\ via' = "ClaudeHandler"
    /\ \E n \in Names :
          /\ user_name' = n
          /\ \E text \in IF outcome = "returns" THEN Texts ELSE {<<>>} :
                /\ original' = IF outcome = "returns" THEN Strip(text) ELSE <<>>
                /\ result' = CASE outcome = "unavailable" -> UnavailableReply(n)
                               [] outcome = "raises" -> ErrorReply(n)
                               [] outcome = "returns" -> Strip(text)
    /\ calls' = IF outcome = "unavailable" THEN calls ELSE calls + 1
    /\ raises' = IF outcome = "raises" THEN raises + 1 ELSE raises
    /\ got' = IF outcome = "returns" THEN 1 ELSE 0
    /\ g_pc' = "returned"
    /\ UNCHANGED <<system_prompt, attempt, alternate, alt_calls, sleeps>>
    /\ UNCHANGED nonGenVars

(***************************************************************************)
(* The process stops between two passes and is started again: module       *)
(* globals are rebuilt, MessageHandler.__init__ and DataManager.__init__   *)
(* load what the files hold.                                               *)
(***************************************************************************)
Restart ==
    /\ \A th \in Threads : pc[th] = "idle"
    /\ epoch < MaxRestarts
    /\ epoch' = epoch + 1
    /\ processed_messages' = LoadProcessed(chat_log_file)
    /\ rejected_matches' = rejected_file
    /\ pending_logs' = <<>>
    /\ auto_approved_logs' = <<>>
    /\ snap' = [th \in Threads |-> [c \in Conv |-> <<>>]]
    /\ processed' = [th \in Threads |-> <<>>]
    /\ idx' = [th \in Threads |-> 1]
    /\ sinkCalls' = [id \in Ids |-> 0]
    /\ failedIds' = {}
    /\ clean' = TRUE
    /\ lastSnap' = <<>>
    /\ repeat' = [th \in Threads |-> FALSE]
    /\ passAuto' = [th \in Threads |-> "off"]
    /\ passSends' = [th \in Threads |-> 0]
    /\ unseen' = [th \in Threads |-> {}]
    /\ UNCHANGED <<srcVars, auto_approve, fileVars, stats, rejected_file,
                   workers, pc, cur, delivered, rejectedGen, approvals>>
    /\ UNCHANGED nonPipeVars

(***************************************************************************)
(* _sanitize_reply called on its own.                                      *)
(***************************************************************************)
\* the characters of the arguments: an asterisk, a letter, a blank, a mark
SanChars == {"*", "a", " ", "?"}

\* the texts of at most n characters
SanTextsUpTo(n) == UNION {[1..k -> SanChars] : k \in 0..n}

\* "Hey *winks* how are you"
HeyWinks ==
    <<"H", "e", "y", " ", "*", "w", "i", "n", "k", "s", "*", " ", "h", "o", "w",
      " ", "a", "r", "e", " ", "y", "o", "u">>

\* the arguments _sanitize_reply is called with
SanTexts == SanTextsUpTo(MaxSanLen) \cup {HeyWinks}

InitSan ==
    /\ san_text = <<>>
    /\ san_reply = <<>>
    /\ san_done = FALSE

\* lines 185-197: _sanitize_reply(text) runs and returns
Sanitize ==
    /\ ~san_done
    /\ san_reply' = SanitizeReply(san_text)
    /\ san_done' = TRUE
    /\ UNCHANGED <<san_text, pipeVars, genVars, usageVars, ledgerVars, callVars,
                   moreVars>>

(***************************************************************************)
(* MessageGenerator._track_usage and the file it keeps.  The file is       *)
(* missing, unreadable as JSON, or a JSON object; a key that is absent and *)
(* is read with .get(key, default) is written here as its default.         *)
(***************************************************************************)
Callers == {1, 2}
Models == {"model-a", "model-b"}
Tokens == {1, 2}

MissingFile == [kind |-> "missing", total_tokens |-> 0, by_model |-> <<>>]
CorruptFile == [kind |-> "corrupt", total_tokens |-> 0, by_model |-> <<>>]
JsonFile(total, by) == [kind |-> "json", total_tokens |-> total, by_model |-> by]

\* the file as _ensure_files_exist leaves it (src/config.py, line 301)
TemplateFile == JsonFile(0, <<>>)

\* the states the file may be in before the first call
UsageFiles ==
    {MissingFile, CorruptFile, TemplateFile, JsonFile(3, [m \in {"model-a"} |-> 3])}

\* dict.get(key, 0)
Get(dict, key) == IF key \in DOMAIN dict THEN dict[key] ELSE 0

\* lines 214-217: usage = {}; if the file exists: usage = json.load(f)
Loaded(file) == IF file.kind = "missing" THEN TemplateFile ELSE file

\* an update that overwrites the model's count
AddUsageOverwrites(usage, model, tokens) ==
    JsonFile(usage.total_tokens + tokens,
             [m \in DOMAIN usage.by_model \cup {model} |->
                 IF m = model THEN tokens ELSE usage.by_model[m]])

\* lines 219-221: total_tokens and by_model[model] grow by tokens
AddUsage(usage, model, tokens) ==
    JsonFile(usage.total_tokens + tokens,
             [m \in DOMAIN usage.by_model \cup {model} |->
                 IF m = model THEN Get(usage.by_model, m) + tokens
                 ELSE usage.by_model[m]])

NoArg == [model |-> "", tokens |-> 0]

InitUsage ==
    /\ usage_file = TemplateFile
    /\ trackers = {}
    /\ u_pc = [c \in Callers |-> "idle"]
    /\ u_arg = [c \in Callers |-> NoArg]
    /\ u_usage = [c \in Callers |-> TemplateFile]
    /\ u_seen = [c \in Callers |-> "none"]
    /\ u_base = TemplateFile
    /\ u_calls = 0
    /\ rec_total = 0
    /\ rec_by = [m \in Models |-> 0]

\* the call of caller c returns
Recorded(c, model, tokens) ==
    /\ rec_total' = rec_total + tokens
    /\ rec_by' = [rec_by EXCEPT ![model] = @ + tokens]
    /\ u_pc' = [u_pc EXCEPT ![c] = "idle"]

\* lines 213-217: _track_usage(model, tokens) reads the file; json.load
\* raises on a file that is no JSON, the except clause of lines 226-227 logs
\* it and the call returns
LoadUsage(c, model, tokens) ==
    /\ c \in trackers
    /\ u_pc[c] = "idle"
    /\ u_calls < MaxRecords
    /\ u_calls' = u_calls + 1
    /\ u_arg' = [u_arg EXCEPT ![c] = [model |-> model, tokens |-> tokens]]
    /\ u_seen' = [u_seen EXCEPT ![c] = usage_file.kind]
    /\ IF usage_file.kind = "corrupt"
       THEN /\ Recorded(c, model, tokens)
            /\ UNCHANGED u_usage
       ELSE /\ u_usage' = [u_usage EXCEPT ![c] = Loaded(usage_file)]
            /\ u_pc' = [u_pc EXCEPT ![c] = "loaded"]
            /\ UNCHANGED <<rec_total, rec_by>>
    /\ UNCHANGED <<usage_file, trackers, u_base>>
    /\ UNCHANGED <<pipeVars, genVars, sanVars, ledgerVars, callVars, moreVars>>

\* lines 219-224: the counts are added and the file is written
StoreUsage(c) ==
    /\ u_pc[c] = "loaded"
    /\ usage_file' = AddUsage(u_usage[c], u_arg[c].model, u_arg[c].tokens)
    /\ Recorded(c, u_arg[c].model, u_arg[c].tokens)
    /\ UNCHANGED <<trackers, u_arg, u_usage, u_seen, u_base, u_calls>>
    /\ UNCHANGED <<pipeVars, genVars, sanVars, ledgerVars, callVars, moreVars>>

(***************************************************************************)
(* A process starting: DataManager.__init__ and MessageHandler.__init__    *)
(* read the stores they find.  A store is missing, cannot be opened or     *)
(* parsed, or holds records; a line of the chat log that json.loads        *)
(* rejects carries the mark `unparsable`.                                  *)
(***************************************************************************)
\* json.dump(list(self.rejected_matches), f): the members in some order
RejectedLists == {<<>>, <<"c1">>, <<"c1", "c2">>, <<"c2", "c1">>, <<"c2", "c2">>}

RejectedStores ==
    {[kind |-> "missing", list |-> <<>>], [kind |-> "corrupt", list |-> <<>>]}
        \cup {[kind |-> "json", list |-> l] : l \in RejectedLists}

\* _load_rejected, lines 37-45: set(json.load(f)), set() when the file is
\* missing or the load raises
LoadRejected(file) ==
    IF file.kind = "json" THEN {file.list[i] : i \in DOMAIN file.list} ELSE {}

LedgerStores ==
    {MissingLedger, CorruptLedger, Dump(<<>>), Dump([c \in {"c1"} |-> "T1"]),
     Dump([c \in Conv |-> "T2"])}

\* a line json.dumps wrote, and what is left of one that was cut or garbled
GoodLine(c, k) == [match_id |-> c, timestamp |-> LocalTs(k), sent |-> TRUE]
BadLine(c, k) ==
    [match_id |-> c, timestamp |-> LocalTs(k), sent |-> TRUE, unparsable |-> TRUE]

ChatLogs ==
    {<<>>, <<GoodLine("c1", 1)>>, <<BadLine("c1", 1)>>,
     <<GoodLine("c1", 1), BadLine("c2", 2)>>, <<BadLine("c1", 1), GoodLine("c2", 2)>>,
     <<BadLine("c1", 1), BadLine("c2", 2)>>, <<GoodLine("c1", 1), GoodLine("c2", 2)>>}

ChatStores ==
    {[kind |-> "missing", lines |-> <<>>]}
        \cup {[kind |-> k, lines |-> l] : k \in {"unreadable", "lines"}, l \in ChatLogs}

\* a parser that accepts every line
ParsesAll(line) == TRUE

\* lines 41-46: json.loads(line) returns, or raises and the line is skipped
Parses(line) == "unparsable" \notin DOMAIN line

\* _load_processed_messages, lines 35-49, on the file it finds: nothing when
\* the file is missing or open raises, else the ids of the lines that parse
LoadProcessedMessages(file) ==
    IF file.kind = "lines" THEN LoadProcessed(SelectSeq(file.lines, Parses)) ELSE {}

NothingLoaded ==
    [done |-> FALSE, replied_messages |-> <<>>, rejected_matches |-> {},
     processed_messages |-> {}]

InitLoad ==
    /\ disk = [replied_file |-> Dump(<<>>),
               rejected_file |-> [kind |-> "json", list |-> <<>>],
               chat_log_file |-> [kind |-> "missing", lines |-> <<>>]]
    /\ loaded = NothingLoaded

\* DataManager.__init__ (data_manager.py, lines 13-25) and
\* MessageHandler.__init__ (message_handler.py, lines 22-33)
Construct ==
    /\ ~loaded.done
    /\ loaded' = [done |-> TRUE,
                  replied_messages |-> LoadReplied(disk.replied_file),
                  rejected_matches |-> LoadRejected(disk.rejected_file),
                  processed_messages |-> LoadProcessedMessages(disk.chat_log_file)]
    /\ UNCHANGED <<disk, pipeVars, genVars, sanVars, usageVars, ledgerVars, callVars,
                   write_failed, shape, tailVars>>

InitFail == write_failed = {}

\* every record of the source is a mapping with fields of the right types
InitShape == shape = [c \in Conv |-> "mapping"]

(***************************************************************************)
(* web_app.py: bot_loop and the /toggle-bot route.  The web server handles *)
(* requests in threads, so the statements of two toggle_bot calls          *)
(* interleave.                                                             *)
(***************************************************************************)
BotThreads == 1..MaxBotThreads
Handlers == {1, 2}

\* a loop that never looks at the switch
LoopConditionAlways(flag) == TRUE

\* line 53: while config.get("bot_enabled", False)
LoopCondition(flag) == flag

\* Thread.is_alive(): started and not yet returned
IsAlive(th) == b_pc[th] \notin {"unborn", "created", "dead"}

\* process_new_messages is running in thread th
InPass(th) == b_pc[th] \in {"pass", "send"}

InitBot ==
    /\ bot_enabled \in BOOLEAN
    /\ bot_thread = 0
    /\ b_pc = [th \in BotThreads |-> "unborn"]
    /\ t_pc = [h \in Handlers |-> "idle"]
    /\ t_state = [h \in Handlers |-> FALSE]
    /\ off_in_pass = [th \in BotThreads |-> FALSE]

\* lines 93-94: current_state = config.get(...); new_state = not current_state
ToggleRead(h) ==
    /\ t_pc[h] = "idle"
    /\ t_state' = [t_state EXCEPT ![h] = ~bot_enabled]
    /\ t_pc' = [t_pc EXCEPT ![h] = "set"]
    /\ UNCHANGED <<bot_enabled, bot_thread, b_pc, off_in_pass>>
    /\ UNCHANGED headVars

\* line 95: config.set("bot_enabled", new_state)
ToggleSet(h) ==
    /\ t_pc[h] = "set"
    /\ bot_enabled' = t_state[h]
    /\ off_in_pass' = [th \in BotThreads |->
                          IF t_state[h] THEN FALSE
                          ELSE off_in_pass[th] \/ (bot_enabled /\ InPass(th))]
    /\ t_pc' = [t_pc EXCEPT ![h] = "decide"]
    /\ UNCHANGED <<bot_thread, b_pc, t_state>>
    /\ UNCHANGED headVars

\* threads that were never created
Unborn == {th \in BotThreads : b_pc[th] = "unborn"}

\* line 97: new_state and (not bot_thread or not bot_thread.is_alive())
ToggleDecide(h) ==
    /\ t_pc[h] = "decide"
    /\ IF t_state[h] /\ (bot_thread = 0 \/ ~IsAlive(bot_thread))
       THEN /\ Cardinality(Unborn) > Cardinality({g \in Handlers : t_pc[g] = "create"})
            /\ t_pc' = [t_pc EXCEPT ![h] = "create"]
       ELSE t_pc' = [t_pc EXCEPT ![h] = "idle"]
    /\ UNCHANGED <<bot_enabled, bot_thread, b_pc, t_state, off_in_pass>>
    /\ UNCHANGED headVars

\* line 98: bot_thread = threading.Thread(target=bot_loop, daemon=True)
ToggleCreate(h) ==
    /\ t_pc[h] = "create"
    /\ LET th == CHOOSE x \in Unborn : \A y \in Unborn : x <= y
       IN /\ bot_thread' = th
          /\ b_pc' = [b_pc EXCEPT ![th] = "created"]
    /\ t_pc' = [t_pc EXCEPT ![h] = "start"]
    /\ UNCHANGED <<bot_enabled, t_state, off_in_pass>>
    /\ UNCHANGED headVars

\* line 99: bot_thread.start() on the thread the global names now; start()
\* on a thread that was started already raises RuntimeError and the request
\* ends
ToggleStart(h) ==
    /\ t_pc[h] = "start"
    /\ b_pc' = IF b_pc[bot_thread] = "created"
               THEN [b_pc EXCEPT ![bot_thread] = "check"]
               ELSE b_pc
    /\ t_pc' = [t_pc EXCEPT ![h] = "idle"]
    /\ UNCHANGED <<bot_enabled, bot_thread, t_state, off_in_pass>>
    /\ UNCHANGED headVars

\* line 53: the loop condition; the thread returns when it is false
LoopCheck(th) ==
    /\ b_pc[th] = "check"
    /\ b_pc' = [b_pc EXCEPT ![th] = IF LoopCondition(bot_enabled) THEN "pass" ELSE "dead"]
    /\ UNCHANGED <<bot_enabled, bot_thread, t_pc, t_state, off_in_pass>>
    /\ UNCHANGED headVars

\* line 56: process_new_messages, which reads no switch: it finds nothing to
\* answer, or goes into a send and comes back from it
PassStep(th) ==
    /\ InPass(th)
    /\ \E to \in IF b_pc[th] = "pass" THEN {"send", "file"} ELSE {"file"} :
          b_pc' = [b_pc EXCEPT ![th] = to]
    /\ UNCHANGED <<bot_enabled, bot_thread, t_pc, t_state, off_in_pass>>
    /\ UNCHANGED headVars

\* lines 59-69: the entries are filed and the thread sleeps 30 to 90 s
FileAndSleep(th) ==
    /\ b_pc[th] \in {"file", "sleep"}
    /\ b_pc' = [b_pc EXCEPT ![th] = IF @ = "file" THEN "sleep" ELSE "check"]
    /\ UNCHANGED <<bot_enabled, bot_thread, t_pc, t_state, off_in_pass>>
    /\ UNCHANGED headVars

\* a step of bot_loop in thread th
BotStep(th) == LoopCheck(th) \/ PassStep(th) \/ FileAndSleep(th)

InitMore == InitLoad /\ InitFail /\ InitShape

\* no bot thread, no request
InitBotIdle ==
    /\ bot_enabled = FALSE
    /\ bot_thread = 0
    /\ b_pc = [th \in BotThreads |-> "unborn"]
    /\ t_pc = [h \in Handlers |-> "idle"]
    /\ t_state = [h \in Handlers |-> FALSE]
    /\ off_in_pass = [th \in BotThreads |-> FALSE]

\* no call of send_to_unmatched yet
InitOutreach ==
    /\ o_pc = "idle"
    /\ o_count = 0
    /\ o_reported = <<>>
    /\ o_unmatched = <<>>
    /\ o_sent = 0
    /\ o_failed = 0
    /\ o_result = <<>>
    /\ o_attempted = <<>>
    /\ openers_sent = [c \in Conv |-> 0]
    /\ kept_empty = [c \in Conv |-> TRUE]

\* no call of _build_messages
InitPromptIdle ==
    /\ p_pc = "idle"
    /\ p_name = <<>>
    /\ p_bio = <<>>
    /\ p_history = <<>>
    /\ p_messages = <<>>

\* no lookup
InitLookIdle ==
    /\ k_pc = "idle"
    /\ k_name = "default"
    /\ k_config = "default"
    /\ k_via = "none"
    /\ k_profile = "none"

\* no write under way
InitWrite ==
    /\ w_pc = "idle"
    /\ w_op = "none"
    /\ w_before = <<>>
    /\ w_after = <<>>
    /\ w_crashed = FALSE

\* dashboard.py, lines 47-75: a BotState as constructed, switched off
StateThreads == 1 .. MaxStateThreads
InitStateIdle ==
    /\ state_enabled = FALSE
    /\ bot_running = FALSE
    /\ state_thread = 0
    /\ loop_pc = [th \in StateThreads |-> "unborn"]

\* rate_limiter.py, lines 13-16: a RateLimiter as constructed, no caller
Waiters == {1, 2}
Endpoints == {"default", "like"}
InitLimiterIdle ==
    /\ clock = min_interval
    /\ lock_holder = 0
    /\ last_request_times = <<>>
    /\ r_pc = [w \in Waiters |-> "idle"]
    /\ r_endpoint = [w \in Waiters |-> "default"]
    /\ r_wake = [w \in Waiters |-> 0]
    /\ returned = [e \in Endpoints |-> <<>>]

InitCallers ==
    /\ InitOutreach /\ InitPromptIdle /\ InitLookIdle /\ InitWrite
    /\ InitStateIdle /\ InitLimiterIdle

InitTail == InitBotIdle /\ InitCallers

\* the parts of the initial state that no call has touched
InitAux == InitSan /\ InitUsage /\ InitLedger /\ InitMore /\ InitTail

\* process_new_messages and the Conversation Source
NextCore ==
    \/ \E c \in Conv, role \in {"user", "assistant"} : Arrive(c, role)
    \/ \E th \in Threads : StartPass(th)
    \/ \E th \in Threads : NextMatch(th)
    \/ \E th \in Threads : Generate(th)
    \/ \E th \in Threads : Dispatch(th)
    \/ \E th \in Threads : Mark(th)
    \/ \E th \in Threads : Return(th)

\* One bot_loop thread (passes follow one another), the auto-approve switch
\* and restarts of the process.
Init == InitPipe /\ InitGenerator /\ InitAux /\ workers = {1}
Next ==
    \/ NextCore
    \/ \E state \in BOOLEAN : ToggleAutoApprove(state)
    \/ Restart
Spec == Init /\ [][Next]_vars

\* One bot_loop thread in one process, with writes to the two logs that may
\* fail.
NextWriteFail ==
    \/ \E c \in Conv, role \in {"user", "assistant"} : Arrive(c, role)
    \/ \E th \in Threads : StartPass(th)
    \/ \E th \in Threads : NextMatch(th)
    \/ \E th \in Threads : Generate(th)
    \/ \E th \in Threads, saved \in BOOLEAN : DispatchWith(th, saved)
    \/ \E th \in Threads, written \in BOOLEAN : MarkWith(th, written)
    \/ \E th \in Threads : Return(th)
    \/ \E state \in BOOLEAN : ToggleAutoApprove(state)
SpecWriteFail == Init /\ [][NextWriteFail]_vars

\* One bot_loop thread over a source whose records may be malformed.
InitMalformed ==
    /\ InitPipe /\ InitGenerator /\ InitSan /\ InitUsage /\ InitLedger
    /\ InitLoad /\ InitFail /\ InitTail
    /\ shape \in [Conv -> Shapes]
    /\ workers = {1}
NextMalformed ==
    \/ \E c \in Conv, role \in {"user", "assistant"} : Arrive(c, role)
    \/ \E th \in Threads : StartPass(th)
    \/ \E th \in Threads : NextRecord(th)
    \/ \E th \in Threads : Generate(th)
    \/ \E th \in Threads : Dispatch(th)
    \/ \E th \in Threads : Mark(th)
    \/ \E th \in Threads : Return(th)
SpecMalformed == InitMalformed /\ [][NextMalformed]_vars

\* One bot_loop thread and the DataManager's rejected set.
NextRejected ==
    \/ NextCore
    \/ \E c \in Conv : MarkRejected(c)
    \/ \E c \in Conv : RemoveRejected(c)
SpecRejected == Init /\ [][NextRejected]_vars

\* Two bot_loop threads alive at once: passes may overlap.
InitConc == InitPipe /\ InitGenerator /\ InitAux /\ workers = Threads
SpecConc == InitConc /\ [][NextCore]_vars

\* one call of a reply generator, the pipeline at rest
\* everything at rest but what a specification of its own sets going
InitRest == InitPipe /\ InitGenerator /\ workers = {} /\ auto_approve = TRUE

InitGen == InitRest /\ InitAux
NextGen ==
    \/ \E n \in Names, personality \in Personalities : GenerateReply(n, personality)
    \/ CallReturns
    \/ RetryReturns
    \/ CallRaises
    \/ \E outcome \in {"unavailable", "raises", "returns"} : ClaudeHandlerReply(outcome)
SpecGen == InitGen /\ [][NextGen]_vars

\* the same call, every backend call ending (requests.post has timeout=15,
\* line 164) and every sleep ending
NextGenLive ==
    \/ \E n \in Names, personality \in Personalities : GenerateReply(n, personality)
    \/ CallReturnsOf(SampleTexts)
    \/ RetryReturnsOf(SampleTexts)
    \/ CallRaises
SpecGenLive == InitGen /\ [][NextGenLive]_vars /\ WF_vars(NextGenLive)

\* one call of _sanitize_reply, for every argument
InitSanitize ==
    /\ InitRest
    /\ InitUsage
    /\ InitLedger
    /\ InitMore
    /\ InitTail
    /\ san_text \in SanTexts
    /\ san_reply = <<>>
    /\ san_done = FALSE
SpecSanitize == InitSanitize /\ [][Sanitize]_vars

\* _track_usage called by one caller after another, for every file
InitTrack(who) ==
    /\ InitRest
    /\ InitSan
    /\ InitLedger
    /\ InitMore
    /\ InitTail
    /\ usage_file \in UsageFiles
    /\ u_base = usage_file
    /\ trackers = who
    /\ u_pc = [c \in Callers |-> "idle"]
    /\ u_arg = [c \in Callers |-> NoArg]
    /\ u_usage = [c \in Callers |-> TemplateFile]
    /\ u_seen = [c \in Callers |-> "none"]
    /\ u_calls = 0
    /\ rec_total = 0
    /\ rec_by = [m \in Models |-> 0]
NextUsage ==
    \/ \E c \in Callers, model \in Models, tokens \in Tokens :
          LoadUsage(c, model, tokens)
    \/ \E c \in Callers : StoreUsage(c)
InitUsageSeq == InitTrack({1})
SpecUsage == InitUsageSeq /\ [][NextUsage]_vars

\* _track_usage called by two threads at once (_call_claude, lines 173-176)
InitUsageConc == InitTrack(Callers)
SpecUsageConc == InitUsageConc /\ [][NextUsage]_vars

\* The bot threads and two handlers of /toggle-bot.  A bot thread that can
\* take a step takes it: every call in bot_loop returns and the sleep ends.
InitSwitch ==
    /\ InitRest /\ InitSan /\ InitUsage /\ InitLedger /\ InitMore
    /\ InitBot /\ InitCallers
NextBot ==
    \/ \E h \in Handlers : ToggleRead(h)
    \/ \E h \in Handlers : ToggleSet(h)
    \/ \E h \in Handlers : ToggleDecide(h)
    \/ \E h \in Handlers : ToggleCreate(h)
    \/ \E h \in Handlers : ToggleStart(h)
    \/ \E th \in BotThreads : LoopCheck(th)
    \/ \E th \in BotThreads : PassStep(th)
    \/ \E th \in BotThreads : FileAndSleep(th)
SpecBot ==
    InitSwitch /\ [][NextBot]_vars /\ \A th \in BotThreads : WF_vars(BotStep(th))

\* a process starting on every combination of stores
InitStart ==
    /\ InitRest
    /\ InitSan
    /\ InitUsage
    /\ InitLedger
    /\ InitFail
    /\ InitShape
    /\ InitTail
    /\ disk \in [replied_file : LedgerStores, rejected_file : RejectedStores,
                  chat_log_file : ChatStores]
    /\ loaded = NothingLoaded
SpecStart == InitStart /\ [][Construct]_vars

\* the calls on one DataManager, which its lock makes atomic, for every
\* ledger file its constructor may find
InitData ==
    /\ InitRest
    /\ InitSan
    /\ InitUsage
    /\ InitMore
    /\ InitTail
    /\ replied_file \in {MissingLedger, CorruptLedger, Dump(<<>>)}
    /\ replied_messages = LoadReplied(replied_file)
    /\ conversation_cache = <<>>
    /\ conversation_cache_file = Dump(<<>>)
    /\ last_mark = [c \in Conv |-> "none"]
    /\ d_log = <<>>
    /\ d_lastRej = [c \in Conv |-> "none"]
NextData ==
    \/ \E c \in Conv, t \in Times : MarkReplied(c, t)
    \/ ClearAllData
    \/ \E c \in Conv : MarkRejected(c)
    \/ \E c \in Conv : RemoveRejected(c)
    \/ NewDataManager
SpecData == InitData /\ [][NextData]_vars

(***************************************************************************)
(* Claims about the pipeline.                                              *)
(***************************************************************************)
Idle == \A th \in Threads : pc[th] = "idle"

\* the newest inbound message of match c in the list `list`
Newest(list, c) == MsgId(c, LastUserTs(list[c]))

\* the entries of `logs` that draft `reply` for `match_id`
DraftsFor(logs, match_id, reply) ==
    {i \in DOMAIN logs : logs[i].match_id = match_id /\ logs[i].bot_reply = reply}

\* C1: in a process in which every dispatch found auto_approve on and the
\* Sink delivering, a pass over the very list the pass before it saw makes
\* no _send_reply call, and once a pass is over every conversation of its
\* list that has an inbound message has had exactly one _send_reply call for
\* its newest inbound message.
C1_RepeatedPassSendsNothing ==
    clean =>
      /\ \A th \in workers : repeat[th] => passSends[th] = 0
      /\ (Idle /\ lastSnap # <<>>) =>
            \A c \in Conv : HasInbound(lastSnap[c]) =>
                               sinkCalls[Newest(lastSnap, c)] = 1

\* C1 witness: a second pass over an unchanged list that holds an answered
\* inbound message is over.
C1_Witness ==
    /\ clean /\ Idle /\ repeat[1] /\ passSends[1] = 0
    /\ \E c \in Conv : /\ HasInbound(lastSnap[c])
                       /\ sinkCalls[Newest(lastSnap, c)] = 1
                       /\ Newest(lastSnap, c) \in delivered

\* C2: a message whose latest _send_reply returned False is not in the
\* handled set, so that the next pass tries it again.
C2_FailedSendLeavesRecord == failedIds \cap processed_messages = {}

\* C3: between passes, every message whose reply was delivered is in the
\* handled set of the running process, restarted or not.
C3_DeliveredStaysHandled == Idle => delivered \subseteq processed_messages

\* C4: whatever the overlap of the passes, no message gets more than one
\* _send_reply call.
C4_AtMostOneSendPerMessage == \A id \in Ids : sinkCalls[id] <= 1

\* C5: generate_reply is never called for a match that is in the rejected
\* set at that moment.
C5_RejectedNeverGenerated == rejectedGen = {}

\* C6: a pass during which auto_approve is off makes no _send_reply call,
\* and once it is over pending_logs holds exactly one draft, not sent, for
\* every match whose newest inbound message it found unhandled, and the pass
\* has drafted nothing for any other match.
C6_DisabledPassOnlyDrafts ==
    \A th \in workers : passAuto[th] = "off" =>
      /\ passSends[th] = 0
      /\ pc[th] = "idle" =>
           \A c \in Conv :
              IF c \in unseen[th]
              THEN LET mine == DraftsFor(pending_logs, c,
                                         Draft(c, LastUserTs(snap[th][c])))
                   IN /\ Cardinality(mine) = 1
                      /\ \A i \in mine : ~pending_logs[i].sent
              ELSE \A i \in DOMAIN processed[th] : processed[th][i].match_id # c

\* C6 witness: a pass with auto_approve off is over and has left a draft in
\* pending_logs.
C6_Witness ==
    /\ passAuto[1] = "off" /\ pc[1] = "idle" /\ unseen[1] # {}
    /\ pending_logs # <<>> /\ passSends[1] = 0

(***************************************************************************)
(* Claims about the reply generators.                                      *)
(***************************************************************************)
Returned == g_pc = "returned"

\* the fixed replies a generator class falls back on for a recipient
PoolOf(class, n) ==
    IF class = "ClaudeHandler" THEN {UnavailableReply(n), ErrorReply(n)}
    ELSE FallbackPool(n)

\* C7: a generate_reply call all of whose backend calls raised has returned
\* (no exception leaves it), and what it returned is a non-empty text of the
\* fallback pool of its class for the recipient's name.
C7_AllRaiseGivesFallback ==
    (Returned /\ calls > 0 /\ raises = calls) =>
        /\ result \in PoolOf(via, user_name)
        /\ Len(result) >= 1

\* C7 witness: MessageGenerator.generate_reply has returned a fallback after
\* three backend calls that all raised.
C7_Witness ==
    /\ Returned /\ via = "MessageGenerator"
    /\ calls = max_retries /\ raises = max_retries
    /\ result \in FallbackPool(user_name)

\* C8: whatever MessageGenerator.generate_reply returns has length at least 1.
C8_ReplyNeverEmpty ==
    (Returned /\ via = "MessageGenerator") => Len(result) >= 1

\* C9: when the first completion of an attempt is a refusal and the
\* alternate-personality completion is not, generate_reply returns the
\* sanitised alternate completion, and that is not the text of the refusal.
C9_RefusalRecovered ==
    (Returned /\ via = "MessageGenerator" /\ got = 2
       /\ IsRefusal(original) /\ ~IsRefusal(alternate)) =>
        /\ result = SanitizeReply(alternate)
        /\ result # original

\* C10: when both completions of an attempt are refusals, what
\* generate_reply returns is a reply of the fallback pool for the recipient.
C10_PersistentRefusalFallsBack ==
    (Returned /\ via = "MessageGenerator" /\ got = 2
       /\ IsRefusal(original) /\ IsRefusal(alternate)) =>
        result \in FallbackPool(user_name)

\* the sleeps of a retry loop that has seen n attempts fail
Backoff(n) == SubSeq(<<1, 2>>, 1, IF n < 2 THEN n ELSE 2)

\* C11: a running MessageGenerator.generate_reply returns in the end; it
\* starts at most 3 attempts, one more for each attempt that raised; it has
\* slept 1 s after the first failed attempt, 2 s after the second and not
\* after the third; and after three failed attempts it has returned a
\* fallback.
C11_BoundedRetryWithBackoff ==
    /\ [](via = "MessageGenerator" =>
            /\ attempt <= max_retries
            /\ attempt = raises
            /\ (~Returned => attempt < max_retries)
            /\ sleeps = Backoff(raises)
            /\ (raises = max_retries =>
                   Returned /\ result \in FallbackPool(user_name)))
    /\ ((g_pc \in {"call", "retry_call"}) ~> Returned)

\* C11 witness: generate_reply has returned after three failed attempts,
\* having slept 1 s and 2 s.
C11_Witness ==
    /\ Returned /\ via = "MessageGenerator"
    /\ attempt = max_retries /\ sleeps = <<1, 2>>

\* C12: one MessageGenerator.generate_reply call makes at most one
\* alternate-personality backend call and at most max_retries + 1 backend
\* calls in all.
C12_RefusalRetriedOnce ==
    via = "MessageGenerator" =>
        /\ alt_calls <= 1
        /\ calls <= max_retries + 1

\* text holds an asterisk, one or more other characters and an asterisk
HasSpan(text) ==
    \E i, j \in 1..Len(text) :
        /\ i + 1 < j
        /\ text[i] = "*" /\ text[j] = "*"
        /\ \A k \in (i + 1)..(j - 1) : text[k] # "*"

\* C13: what _sanitize_reply returns holds no asterisk-delimited span, and
\* "Hey *winks* how are you" comes back as "Hey how are you.".
C13_NoStageDirectionLeft ==
    san_done =>
        /\ ~HasSpan(san_reply)
        /\ san_text = HeyWinks =>
              san_reply = <<"H", "e", "y", " ", "h", "o", "w", " ", "a", "r", "e",
                            " ", "y", "o", "u", ".">>


\* no call of _track_usage is between its read and its write
UsageIdle == \A c \in Callers : u_pc[c] = "idle"

\* the file could be read before the first call
Readable == u_base.kind # "corrupt"

C15_NoLostIncrement ==
    UsageIdle /\ Readable =>
        usage_file.total_tokens = u_base.total_tokens + rec_total

\* C16: a call of _track_usage(m, n) that finds the usage file missing or
\* unreadable returns and leaves the file at total_tokens = n, by_model[m] = n.
C16_CorruptStoreCountsAsZero ==
    \A c \in Callers :
        u_pc[c] = "idle" /\ u_seen[c] \in {"missing", "corrupt"} =>
            usage_file = AddUsage(TemplateFile, u_arg[c].model, u_arg[c].tokens)

\* the last call made on the DataManager
LastCall == IF d_log = <<>> THEN Call("", "", "") ELSE d_log[Len(d_log)]

\* C17: after any calls of mark_replied and clear_all_data (and of the
\* constructor), has_replied_to(c, t) holds exactly when the last mark_replied
\* for c since the last clear was made with t; it is false for every other
\* time, the ones marked before included.
C17_LedgerQuery ==
    \A c \in Conv, t \in Times : HasRepliedTo(c, t) <=> last_mark[c] = t

\* c1 was marked with T1 and then with T2
C17_Witness ==
    /\ d_log = <<Call("mark_replied", "c1", "T1"), Call("mark_replied", "c1", "T2")>>
    /\ HasRepliedTo("c1", "T2")
    /\ ~HasRepliedTo("c1", "T1")

\* this step is the call mark_replied(c, t)
MarkStep(c, t) ==
    /\ d_log' # d_log
    /\ d_log'[Len(d_log')] = Call("mark_replied", c, t)

\* C18: mark_replied(c, t) leaves has_replied_to(c, t) true and the entry of
\* every other conversation as it was, and when the call before it was the
\* same call it changes neither the ledger nor its file.
C18_MarkRepliedIdempotent ==
    [][\A c \in Conv, t \in Times :
          MarkStep(c, t) =>
            /\ RepliedIn(replied_messages', c, t)
            /\ \A o \in Conv \ {c}, u \in Times :
                  RepliedIn(replied_messages', o, u) <=> RepliedIn(replied_messages, o, u)
            /\ LastCall = Call("mark_replied", c, t) =>
                  /\ replied_messages' = replied_messages
                  /\ replied_file' = replied_file]_vars

\* mark_replied("c1", "T1") was called twice in a row while c2 had an entry
C18_Witness ==
    /\ d_log = <<Call("mark_replied", "c1", "T1"), Call("mark_replied", "c1", "T1")>>
    /\ HasRepliedTo("c1", "T1")
    /\ "c2" \in DOMAIN replied_messages
    /\ replied_file = Dump(replied_messages)

\* C20: when mark_replied(c, t) returns, the file holds the ledger of the
\* memory, with c at t and every entry there was before the call; a
\* DataManager constructed right after it has has_replied_to(c, t) true and
\* the same ledger.
C20_LedgerDurable ==
    [][\A c \in Conv, t \in Times :
          /\ MarkStep(c, t) =>
                /\ LoadReplied(replied_file') = replied_messages'
                /\ RepliedIn(LoadReplied(replied_file'), c, t)
                /\ \A o \in Conv \ {c}, u \in Times :
                      RepliedIn(replied_messages, o, u) =>
                          RepliedIn(LoadReplied(replied_file'), o, u)
          /\ (/\ LastCall = Call("mark_replied", c, t)
              /\ d_log' # d_log
              /\ d_log'[Len(d_log')] = Call("__init__", "", "")) =>
                /\ RepliedIn(replied_messages', c, t)
                /\ replied_messages' = replied_messages]_vars

\* a DataManager was constructed right after mark_replied("c2", "T2"), and
\* the ledger holds that entry and the older one of c1
C20_Witness ==
    /\ d_log = <<Call("mark_replied", "c2", "T2"), Call("__init__", "", "")>>
    /\ HasRepliedTo("c2", "T2")
    /\ HasRepliedTo("c1", "T1")

\* this step is the call op(c) on the rejected set
RejectedStep(op, c) ==
    /\ d_log' # d_log
    /\ d_log'[Len(d_log')] = Call(op, c, "")

\* C19: is_rejected(c) holds exactly when the last call of mark_rejected or
\* remove_rejected on c was mark_rejected; either call leaves the other ids
\* as they were and the file equal to the set in memory, and changes nothing
\* when the call before it was the same call.
C19_RejectedMembership ==
    /\ [](/\ \A c \in Conv : IsRejected(c) <=> d_lastRej[c] = "mark_rejected"
          /\ LastCall.op \in {"mark_rejected", "remove_rejected"} =>
                rejected_file = rejected_matches)
    /\ [][\A c \in Conv, op \in {"mark_rejected", "remove_rejected"} :
            RejectedStep(op, c) =>
              /\ (c \in rejected_matches') <=> (op = "mark_rejected")
              /\ rejected_matches' \ {c} = rejected_matches \ {c}
              /\ rejected_file' = rejected_matches'
              /\ LastCall = Call(op, c, "") =>
                    /\ rejected_matches' = rejected_matches
                    /\ rejected_file' = rejected_file]_vars

\* c1 was marked and removed again, then mark_rejected("c2") was called twice
C19_Witness ==
    /\ d_log = <<Call("mark_rejected", "c2", ""), Call("mark_rejected", "c2", "")>>
    /\ d_lastRej["c1"] = "remove_rejected"
    /\ IsRejected("c2")
    /\ ~IsRejected("c1")
    /\ rejected_file = {"c2"}

\* every line of the chat log is one json.loads rejects
NoLineParses(file) ==
    \A i \in DOMAIN file.lines : "unparsable" \in DOMAIN file.lines[i]

C22_WriteFailureSwallowed ==
    /\ \A id \in write_failed :
          /\ sinkCalls[id] <= 1
          /\ (id \in processed_messages \/ \E th \in workers : pc[th] = "mark")
    /\ (Idle /\ lastSnap # <<>>) =>
          \A c \in Conv : HasInbound(lastSnap[c]) =>
                             Newest(lastSnap, c) \in processed_messages

\* the write for c1 failed after its reply was delivered, the pass went on to
\* c2 and a later pass over the same list is over
C22_Witness ==
    /\ Idle
    /\ repeat[1]
    /\ MsgId("c1", SrcTs(1)) \in write_failed
    /\ MsgId("c1", SrcTs(1)) \in delivered
    /\ sinkCalls[MsgId("c1", SrcTs(1))] = 1
    /\ MsgId("c1", SrcTs(1)) \in processed_messages
    /\ lastSnap # <<>>
    /\ HasInbound(lastSnap["c2"])
    /\ Newest(lastSnap, "c2") \in processed_messages

\* C23: when a pass is over, every conversation of its list whose record is
\* well formed and which has an inbound message has its newest one handled,
\* whatever the records before it in the list are.
C23_BadRecordSkipped ==
    (Idle /\ lastSnap # <<>>) =>
        \A c \in Conv :
            shape[c] = "mapping" /\ HasInbound(lastSnap[c]) =>
                Newest(lastSnap, c) \in processed_messages

\* C24: a pass that is running when bot_enabled goes off runs on to its end
\* (no step of a pass leads anywhere but further into the pass or to the
\* filing of its entries), its thread starts no other pass while the switch
\* stays off, and the thread comes to its end unless the switch is turned on
\* again.
C24_DisableBetweenPasses ==
    /\ [][\A th \in BotThreads :
            /\ InPass(th) => b_pc'[th] \in {"pass", "send", "file"}
            /\ off_in_pass[th] /\ ~InPass(th) => b_pc'[th] \notin {"pass", "send"}]_vars
    /\ \A th \in BotThreads :
          /\ InPass(th) ~> (b_pc[th] = "sleep")
          /\ off_in_pass[th] ~> (b_pc[th] = "dead" \/ bot_enabled)

\* the switch went off during a pass of thread 1, stayed off, and the thread
\* has ended
C24_Witness ==
    /\ off_in_pass[1]
    /\ ~bot_enabled
    /\ b_pc[1] = "dead"

\* C25: at most one bot_loop thread is alive and at most one pass runs.
C25_OneBotThread ==
    /\ Cardinality({th \in BotThreads : IsAlive(th)}) <= 1
    /\ Cardinality({th \in BotThreads : InPass(th)}) <= 1

(***************************************************************************)
(* Cold outreach: MessageHandler.send_to_unmatched,                        *)
(* src/core/message_handler.py, lines 191-245.                             *)
(***************************************************************************)
MaxCount == 2        \* the largest count a caller asks for
MaxOpeners == 2      \* openers one conversation gets before the model stops calling

\* /message-uninteracted hands over request.json.get("count", 5) as it comes
\* (src/web_app.py, lines 159-162)
Counts == (0 - 1) .. MaxCount

\* what get_matches reports of one conversation
Reports == {"absent", "empty", "talking"}

\* the list get_matches returns, in the order of the source: a record for
\* every conversation it lists, with the number of its messages
Listing(f) ==
    LET listed == SelectSeq(ConvOrder, LAMBDA c : f[c] # "absent")
    IN [i \in 1..Len(listed) |->
          [match_id |-> listed[i],
           messages |-> IF f[listed[i]] = "empty" THEN 0 ELSE 1]]

\* list[:count]: the first count elements, and for a negative count all but
\* the last -count
Slice(list, count) ==
    IF count >= 0
    THEN SubSeq(list, 1, Min(count, Len(list)))
    ELSE SubSeq(list, 1, IF Len(list) + count > 0 THEN Len(list) + count ELSE 0)

\* line 208: [m for m in matches if not m.get("messages", [])][:count]
Unmatched(matches, count) ==
    Slice(SelectSeq(matches, LAMBDA m : m.messages = 0), count)

\* lines 201-208: the call starts, fetches the matches and picks the ones to
\* message
SendToUnmatched(count, f) ==
    /\ o_pc \in {"idle", "done"}
    /\ \A c \in Conv : openers_sent[c] < MaxOpeners
    /\ o_count' = count
    /\ o_reported' = Listing(f)
    /\ o_unmatched' = Unmatched(Listing(f), count)
    /\ o_sent' = 0
    /\ o_failed' = 0
    /\ o_result' = <<>>
    /\ o_attempted' = <<>>
    /\ kept_empty' = [c \in Conv |-> kept_empty[c] /\ f[c] = "empty"]
    /\ o_pc' = "loop"
    /\ UNCHANGED <<openers_sent, promptVars, lookVars, crashVars, stateVars, limitVars, botVars, headNoCallers>>

\* what becomes of one conversation in the loop body: _send_reply returns
\* True (lines 224-226), it returns False (lines 227-229: the sink refused,
\* or raised inside _send_reply, lines 171-173), or the body raises before
\* the send (lines 234-236)
Outcomes == {"sent", "refused", "raised"}

\* lines 210-236: one turn of the loop
OpenerAttempt(outcome) ==
    /\ o_pc = "loop"
    /\ o_unmatched # <<>>
    /\ LET match_id == Head(o_unmatched).match_id
       IN /\ o_attempted' = Append(o_attempted,
                                   [match_id |-> match_id, outcome |-> outcome])
          /\ openers_sent' = IF outcome = "sent"
                             THEN [openers_sent EXCEPT ![match_id] = @ + 1]
                             ELSE openers_sent
    /\ o_sent' = IF outcome = "sent" THEN o_sent + 1 ELSE o_sent
    /\ o_failed' = IF outcome = "sent" THEN o_failed ELSE o_failed + 1
    /\ o_unmatched' = Tail(o_unmatched)
    /\ UNCHANGED <<o_pc, o_count, o_reported, o_result, kept_empty>>
    /\ UNCHANGED <<promptVars, lookVars, crashVars, stateVars, limitVars, botVars, headNoCallers>>

\* lines 238-245, the loop over: the summary is returned
OutreachReturn ==
    /\ o_pc = "loop"
    /\ o_unmatched = <<>>
    /\ o_result' = [sent |-> o_sent, failed |-> o_failed, total |-> o_sent + o_failed]
    /\ o_pc' = "done"
    /\ UNCHANGED <<o_count, o_reported, o_unmatched, o_sent, o_failed, o_attempted,
                   openers_sent, kept_empty>>
    /\ UNCHANGED <<promptVars, lookVars, crashVars, stateVars, limitVars, botVars, headNoCallers>>

\* lines 204 and 238-245: get_matches raises, nothing is attempted
FetchFails(count) ==
    /\ o_pc \in {"idle", "done"}
    /\ o_count' = count
    /\ o_reported' = <<>>
    /\ o_unmatched' = <<>>
    /\ o_sent' = 0
    /\ o_failed' = 0
    /\ o_attempted' = <<>>
    /\ o_result' = [sent |-> 0, failed |-> 0, total |-> 0]
    /\ o_pc' = "done"
    /\ UNCHANGED <<openers_sent, kept_empty>>
    /\ UNCHANGED <<promptVars, lookVars, crashVars, stateVars, limitVars, botVars, headNoCallers>>

\* calls of send_to_unmatched one after another, the rest of the program at
\* rest
InitOut == InitRest /\ InitAux
NextOut ==
    \/ \E count \in Counts, f \in [Conv -> Reports] : SendToUnmatched(count, f)
    \/ \E outcome \in Outcomes : OpenerAttempt(outcome)
    \/ OutreachReturn
    \/ \E count \in Counts : FetchFails(count)
SpecOut == InitOut /\ [][NextOut]_vars

\* the conversations get_matches reported without messages to the call
ReportedEmpty == {o_reported[i].match_id :
                    i \in {j \in 1..Len(o_reported) : o_reported[j].messages = 0}}

\* how many turns of the loop ended the given way
Ended(outcomes) ==
    Cardinality({i \in 1..Len(o_attempted) : o_attempted[i].outcome \in outcomes})

\* C26: when send_to_unmatched(count) has returned, every conversation it
\* attempted was reported with zero messages, it attempted at most count of
\* them (none for a count below zero), no conversation twice, its result has
\* total = sent + failed and total no larger than that cap, and every
\* attempted conversation is counted once, as sent or as failed.
C26_OutreachAccounting ==
    (o_pc = "done") =>
        LET cap == IF o_count >= 0 THEN o_count ELSE 0
        IN /\ \A i \in 1..Len(o_attempted) : o_attempted[i].match_id \in ReportedEmpty
           /\ \A i, j \in 1..Len(o_attempted) :
                 o_attempted[i].match_id = o_attempted[j].match_id => i = j
           /\ Len(o_attempted) <= cap
           /\ o_result.total = o_result.sent + o_result.failed
           /\ o_result.total <= cap
           /\ o_result.sent = Ended({"sent"})
           /\ o_result.failed = Ended({"refused", "raised"})

\* C27: a conversation the source has reported with zero messages to every
\* call of send_to_unmatched has been sent at most one opener, and the calls
\* leave the reply ledger and the set of processed messages as they found
\* them (empty, where nothing else runs).
C27_NoRepeatedOpener ==
    /\ \A c \in Conv : kept_empty[c] => openers_sent[c] <= 1
    /\ processed_messages = {}
    /\ replied_messages = <<>>

(***************************************************************************)
(* The lookups of a personality by name.                                   *)
(***************************************************************************)
\* src/personality/generator.py, lines 16-22: the names in self.personalities
Styles == {"default", "flirty", "funny", "gentle", "intellectual"}

\* src/personality/generator.py, lines 77-98: the names in openers
OpenerStyles == {"default", "flirty", "funny", "gentle"}

\* the names a caller may ask for: every name one of the registries knows, a
\* name none of them knows, and the empty name
PersonalityNames == Catalogue \cup Styles \cup {"nobody", ""}

\* the lookups and the names each of them knows
Lookups == {"PERSONALITIES.get", "get_personality", "personalities.get", "openers.get"}
Known(lookup) ==
    CASE lookup = "PERSONALITIES.get" -> Catalogue
      [] lookup = "get_personality" -> Catalogue
      [] lookup = "personalities.get" -> Styles
      [] lookup = "openers.get" -> OpenerStyles

\* a lookup whose fallback is the configured profile
GetPersonalityOrConfigured(personality_name, configured) ==
    IF personality_name \in Catalogue THEN personality_name ELSE configured

\* src/config.py, lines 340-343: get_personality(personality_name);
\* `personality_name or ...` puts the configured name in the place of an
\* empty one
GetPersonality(personality_name, configured) ==
    LET name == IF personality_name = "" THEN configured ELSE personality_name
    IN IF name \in Catalogue THEN name ELSE "default"

\* src/personality/generator.py, line 45:
\* self.personalities.get(personality, self._default_personality)
PersonalityFunc(personality) ==
    IF personality \in Styles THEN personality ELSE "default"

\* src/personality/generator.py, line 110:
\* openers.get(personality, openers["default"])
PersonalityOpeners(personality) ==
    IF personality \in OpenerStyles THEN personality ELSE "default"

\* one lookup of the name k_name
Lookup(lookup) ==
    /\ k_pc = "args"
    /\ k_via' = lookup
    /\ k_profile' =
          CASE lookup = "PERSONALITIES.get" -> PersonalitiesGet(k_name)
            [] lookup = "get_personality" -> GetPersonality(k_name, k_config)
            [] lookup = "personalities.get" -> PersonalityFunc(k_name)
            [] lookup = "openers.get" -> PersonalityOpeners(k_name)
    /\ k_pc' = "resolved"
    /\ UNCHANGED <<k_name, k_config, outVars, promptVars, crashVars, stateVars, limitVars, botVars, headNoCallers>>

\* a lookup of every name under every configured personality (config.py,
\* lines 289-293, keeps the configured name inside PERSONALITIES)
InitLookup ==
    /\ InitRest /\ InitSan /\ InitUsage /\ InitLedger /\ InitMore
    /\ InitBotIdle /\ InitOutreach /\ InitPromptIdle /\ InitWrite
    /\ InitStateIdle /\ InitLimiterIdle
    /\ k_pc = "args"
    /\ k_name \in PersonalityNames
    /\ k_config \in Catalogue
    /\ k_via = "none"
    /\ k_profile = "none"
NextLookup == \E lookup \in Lookups : Lookup(lookup)
SpecLookup == InitLookup /\ [][NextLookup]_vars

MaxHistory == 12     \* the longest chat_history
MaxTail == 2         \* the newest turns whose roles and contents vary freely

\* the roles of the turns: "user" is the counterpart, "assistant" the bot
Roles == {"user", "assistant"}

\* line 136: the words that stand for media
MediaWords == {<<"g", "i", "f">>,
               <<"i", "m", "a", "g", "e">>,
               <<"p", "h", "o", "t", "o">>,
               <<"p", "i", "c", "t", "u", "r", "e">>,
               <<"s", "e", "l", "f", "i", "e">>}

\* the contents of the turns: nothing, a greeting, a word for media in
\* capitals and small letters, a word that holds one
Contents == {<<>>,
             <<"h", "i">>,
             <<"N", "i", "c", "e", " ", "P", "h", "o", "t", "o">>,
             <<"a", " ", "g", "i", "f", "t">>}

\* the names and the biographies of the counterpart
PromptNames == {<<"S", "a", "m">>, <<"G", "i", "f", "f", "y">>}
Bios == {<<>>,
         <<"d", "o", "g", "s">>,
         <<"s", "e", "l", "f", "i", "e", "s", "!">>}

\* the turn at place i of a history that nothing sets apart
Filler(i) ==
    [role |-> IF i % 2 = 1 THEN "user" ELSE "assistant", content |-> <<"h", "i">>, at |-> i]

\* the histories: n turns, the last of them the turns of tail; every turn
\* carries its place in the history
History(n, tail) ==
    [i \in 1..n |->
        IF i <= n - Len(tail)
        THEN Filler(i)
        ELSE [role |-> tail[i - (n - Len(tail))][1],
              content |-> tail[i - (n - Len(tail))][2],
              at |-> i]]

TailsOf(k) == [1..k -> Roles \X Contents]

Histories ==
    {History(n, tail) : n \in 0..MaxHistory, tail \in UNION {TailsOf(k) : k \in 0..MaxTail}}

\* a history handed on whole
Recent(chat_history) == chat_history

\* line 119: chat_history[-10:]
RecentHistory(chat_history) ==
    IF Len(chat_history) <= 10
    THEN chat_history
    ELSE SubSeq(chat_history, Len(chat_history) - 9, Len(chat_history))

\* lines 124-131: the instruction to write an opening message
OpenerPrompt(name, bio) ==
    [role |-> "user",
     content |->
        <<"Y", "o", "u", " ", "m", "a", "t", "c", "h", "e", "d", " ",
          "w", "i", "t", "h", " ">>
        \o name
        \o <<".", " ">>
        \o (IF bio # <<>>
            THEN <<"T", "h", "e", "i", "r", " ", "b", "i", "o", " ", "s", "a",
                   "y", "s", ":", " ">> \o bio
            ELSE <<"N", "o", " ", "b", "i", "o", " ", "p", "r", "o", "v", "i",
                   "d", "e", "d", ".">>)
        \o <<".", " ">>
        \o <<"W", "r", "i", "t", "e", " ", "a", " ", "f", "l", "i", "r",
             "t", "y", ",", " ", "e", "n", "g", "a", "g", "i", "n", "g",
             " ", "o", "p", "e", "n", "i", "n", "g", " ", "m", "e", "s",
             "s", "a", "g", "e", " ", "t", "h", "a", "t", " ", "w", "i",
             "l", "l", " ", "g", "e", "t", " ", "a", " ", "r", "e", "s",
             "p", "o", "n", "s", "e", ".">>]

\* lines 137-140: the instruction to react to media
MediaPrompt(name) ==
    [role |-> "user",
     content |->
        name
        \o <<" ", "j", "u", "s", "t", " ", "s", "e", "n", "t", " ", "a",
             " ", "p", "h", "o", "t", "o", "/", "G", "I", "F", ".", " ",
             "R", "e", "s", "p", "o", "n", "d", " ", "f", "l", "i", "r",
             "t", "a", "t", "i", "o", "u", "s", "l", "y", " ", "a", "b",
             "o", "u", "t", " ", "i", "t", ".">>]

\* lines 135-136: any(word in content.lower() for word in [...])
MentionsMedia(entry) ==
    \E word \in MediaWords : Search(word, Lower(entry.content))

\* lines 114-142: _build_messages(name, bio, chat_history)
BuildMessagesOf(name, bio, chat_history) ==
    LET recent == IF chat_history # <<>> THEN RecentHistory(chat_history) ELSE <<>>
        messages == IF Len(recent) <= 2
                    THEN Append(recent, OpenerPrompt(name, bio))
                    ELSE recent
    IN IF messages # <<>> /\ MentionsMedia(messages[Len(messages)])
       THEN Append(messages, MediaPrompt(name))
       ELSE messages

\* one call of _build_messages
BuildMessages ==
    /\ p_pc = "args"
    /\ p_messages' = BuildMessagesOf(p_name, p_bio, p_history)
    /\ p_pc' = "built"
    /\ UNCHANGED <<p_name, p_bio, p_history, outVars, lookVars, crashVars, stateVars, limitVars, botVars,
                   headNoCallers>>

\* a call for every name, biography and history
InitPrompt ==
    /\ InitRest /\ InitSan /\ InitUsage /\ InitLedger /\ InitMore
    /\ InitBotIdle /\ InitOutreach /\ InitLookIdle /\ InitWrite
    /\ InitStateIdle /\ InitLimiterIdle
    /\ p_pc = "args"
    /\ p_name \in PromptNames
    /\ p_bio \in Bios
    /\ p_history \in Histories
    /\ p_messages = <<>>
SpecPrompt == InitPrompt /\ [][BuildMessages]_vars

\* the instruction of lines 124-131 is among the entries after the first k
OpenerAppended(k) ==
    \E i \in (k + 1)..Len(p_messages) : p_messages[i] = OpenerPrompt(p_name, p_bio)

\* C29: the list _build_messages returns starts with the 10 newest turns of
\* the history (all of them when there are fewer), in their order; whatever
\* follows is an instruction the method made; the opening-message instruction
\* is among them exactly when those turns are at most 2; the list has at most
\* 12 entries.
C29_PromptBounded ==
    (p_pc = "built") =>
        LET n == Len(p_history)
            k == IF n < 10 THEN n ELSE 10
        IN /\ Len(p_messages) >= k
           /\ SubSeq(p_messages, 1, k) = SubSeq(p_history, n - k + 1, n)
           /\ \A i \in (k + 1)..Len(p_messages) :
                 p_messages[i] \in {OpenerPrompt(p_name, p_bio), MediaPrompt(p_name)}
           /\ OpenerAppended(k) <=> k <= 2
           /\ Len(p_messages) <= 12

\* a history of more than 10 turns went in and its 10 newest came out, with
\* the instruction to react to media behind them
C29_Witness ==
    /\ p_pc = "built"
    /\ Len(p_history) > 10
    /\ Len(p_messages) = 11
    /\ p_messages[1] = p_history[Len(p_history) - 9]

\* the places of the inbound turns of the history
Inbound == {i \in 1..Len(p_history) : p_history[i].role = "user"}

\* the newest inbound turn of the history mentions media
NewestInboundMentionsMedia ==
    /\ Inbound # {}
    /\ MentionsMedia(p_history[CHOOSE i \in Inbound : \A j \in Inbound : j <= i])

\* the instruction of lines 137-140 is the last entry of the list
MediaAppended ==
    /\ p_messages # <<>>
    /\ p_messages[Len(p_messages)] = MediaPrompt(p_name)

\* C30: the list _build_messages returns ends with the instruction to react
\* to media exactly when the newest inbound turn of the history holds one of
\* the words photo, picture, image, selfie, gif; outbound turns, the
\* biography and the opening-message instruction do not bring it about.
C30_MediaFollowsInbound ==
    (p_pc = "built") => (MediaAppended <=> NewestInboundMentionsMedia)

(***************************************************************************)
(* _sanitize_reply on texts with white space of more than one kind and     *)
(* with a full stop.                                                       *)
(***************************************************************************)
MaxFormLen == 5      \* the longest of these texts

FormChars == {"*", "a", " ", "\t", "."}
FormTexts == UNION {[1..k -> FormChars] : k \in 0..MaxFormLen}

InitWellFormed ==
    /\ InitRest
    /\ InitUsage
    /\ InitLedger
    /\ InitMore
    /\ InitTail
    /\ san_text \in FormTexts
    /\ san_reply = <<>>
    /\ san_done = FALSE
SpecWellFormed == InitWellFormed /\ [][Sanitize]_vars

\* how often ch stands in text
CountOf(ch, text) == Cardinality({i \in 1..Len(text) : text[i] = ch})

\* C31: what _sanitize_reply returns neither starts nor ends with white
\* space, holds no two white-space characters in a row, ends with '.', '!' or
\* '?' unless it is empty, and holds one full stop more than the argument
\* only where the text left of the argument ended with none of the three.
C31_SanitisedWellFormed ==
    san_done =>
        LET kept == JoinSplit(SubActions(san_text))
        IN /\ san_reply # <<>> =>
                 /\ san_reply[1] \notin Whitespace
                 /\ san_reply[Len(san_reply)] \notin Whitespace
                 /\ san_reply[Len(san_reply)] \in {".", "!", "?"}
           /\ \A i \in 1..(Len(san_reply) - 1) :
                 ~(san_reply[i] \in Whitespace /\ san_reply[i + 1] \in Whitespace)
           /\ CountOf(".", san_reply) <= CountOf(".", san_text) + 1
           /\ CountOf(".", san_reply) > CountOf(".", san_text) =>
                 /\ kept # <<>>
                 /\ kept[Len(kept)] \notin {".", "!", "?"}

\* a text with white space at both ends and a run of it inside came back
\* with a full stop added
C31_Witness ==
    /\ san_done
    /\ san_text = <<" ", "a", "\t", " ", "a">>
    /\ san_reply = <<"a", " ", "a", ".">>

\* C32: every entry of the dashboard's auto_approved_logs and every line of
\* the auto-approved log file is of a reply the sink accepted (the entry is
\* marked sent).
C32_OnlyDeliveredListed ==
    /\ \A i \in 1..Len(auto_approved_logs) : auto_approved_logs[i].sent
    /\ \A i \in 1..Len(auto_approved_file) : auto_approved_file[i].sent

(***************************************************************************)
(* DataManager.mark_replied and mark_rejected, statement by statement, and *)
(* a crash of the process between any two of them.  `disk` holds the two   *)
(* files; replied_messages and rejected_matches are the fields of the      *)
(* running DataManager.                                                    *)
(***************************************************************************)
\* what a crash in a DataManager write leaves alone
crashRest == <<srcVars, auto_approve, processed_messages, fileVars, webVars,
               rejected_file, workers, thrVars, histVars, genVars, sanVars,
               usageVars, replied_file, conversation_cache,
               conversation_cache_file, last_mark, callVars, loaded,
               write_failed, shape, botVars, outVars, promptVars, lookVars,
               stateVars, limitVars>>

\* the two stores as a DataManager holds them
Stores(replied, rejected) == [replied |-> replied, rejected |-> rejected]

\* json.dump(list(self.rejected_matches), f), the members in the order of
\* the source
DumpRejected(rejected) ==
    [kind |-> "json", list |-> SelectSeq(ConvOrder, LAMBDA c : c \in rejected)]

\* open(file, 'w') has run: the file is there and holds no byte, which
\* json.load rejects
Truncated(file) ==
    IF "members" \in DOMAIN file
    THEN CorruptLedger
    ELSE [kind |-> "corrupt", list |-> <<>>]

\* line 70 and line 83: the field is updated
BeginWrite(op, match_id, message_time) ==
    /\ w_pc = "idle"
    /\ w_op' = op
    /\ w_before' = Stores(replied_messages, rejected_matches)
    /\ replied_messages' = IF op = "mark_replied"
                           THEN SetReplied(replied_messages, match_id, message_time)
                           ELSE replied_messages
    /\ rejected_matches' = IF op = "mark_rejected"
                           THEN AddRejected(rejected_matches, match_id)
                           ELSE rejected_matches
    /\ w_after' = Stores(replied_messages', rejected_matches')
    /\ w_crashed' = FALSE
    /\ w_pc' = "assigned"
    /\ UNCHANGED <<disk, crashRest>>

\* line 72 and line 85: open(file, 'w')
OpenForWrite ==
    /\ w_pc = "assigned"
    /\ disk' = IF w_op = "mark_replied"
               THEN [disk EXCEPT !.replied_file = Truncated(@)]
               ELSE [disk EXCEPT !.rejected_file = Truncated(@)]
    /\ w_pc' = "open"
    /\ UNCHANGED <<replied_messages, rejected_matches, w_op, w_before, w_after,
                   w_crashed, crashRest>>

\* line 73 and line 86: json.dump, and the file is closed
DumpAndClose ==
    /\ w_pc = "open"
    /\ disk' = IF w_op = "mark_replied"
               THEN [disk EXCEPT !.replied_file = Dump(replied_messages)]
               ELSE [disk EXCEPT !.rejected_file = DumpRejected(rejected_matches)]
    /\ w_pc' = "idle"
    /\ UNCHANGED <<replied_messages, rejected_matches, w_op, w_before, w_after,
                   w_crashed, crashRest>>

\* the process dies in the call; a new one constructs its DataManager
\* (lines 13-45)
Crash ==
    /\ w_pc # "idle"
    /\ replied_messages' = LoadReplied(disk.replied_file)
    /\ rejected_matches' = LoadRejected(disk.rejected_file)
    /\ w_crashed' = TRUE
    /\ w_pc' = "idle"
    /\ UNCHANGED <<disk, w_op, w_before, w_after, crashRest>>

InitCrash == InitRest /\ InitAux
NextCrash ==
    \/ \E c \in Conv, t \in Times : BeginWrite("mark_replied", c, t)
    \/ \E c \in Conv : BeginWrite("mark_rejected", c, "")
    \/ OpenForWrite
    \/ DumpAndClose
    \/ Crash
SpecCrash == InitCrash /\ [][NextCrash]_vars

\* C33: after a crash in mark_replied or mark_rejected the new DataManager
\* holds either what the stores held before the call or what they hold after
\* it, whole; no entry of another conversation is lost.
C33_CrashAtomic ==
    w_crashed =>
        Stores(replied_messages, rejected_matches) \in {w_before, w_after}

(***************************************************************************)
(* One generate_reply call together with the usage file: _call_claude      *)
(* calls _track_usage before it returns (src/personality.py, lines         *)
(* 172-178).  One thread, so a _track_usage call runs from its read to its *)
(* write undisturbed.                                                      *)
(***************************************************************************)
\* line 153: payload["model"]
PayloadModel == "claude-3-5-sonnet-20241022"

\* lines 211-227: the file after one call of _track_usage; a file that is no
\* JSON makes json.load raise and is left as it is
TrackUsage(file, model, tokens) ==
    IF file.kind = "corrupt" THEN file ELSE AddUsage(Loaded(file), model, tokens)

\* lines 172-176: the call of _track_usage in a _call_claude that returns;
\* tokens is the count the backend reports, or the words of the reply
TrackCompletion(tokens) ==
    /\ usage_file' = TrackUsage(usage_file, PayloadModel, tokens)
    /\ u_calls' = u_calls + 1
    /\ rec_total' = rec_total + tokens
    /\ UNCHANGED <<trackers, u_pc, u_arg, u_usage, u_seen, u_base, rec_by>>
    /\ UNCHANGED <<pipeVars, sanVars, ledgerVars, callVars, moreVars>>

\* lines 67 and 144-178: the first call of an attempt returns
CallReturnsTracked ==
    \E tokens \in Tokens : CallReturnsGen(SampleTexts) /\ TrackCompletion(tokens)

\* lines 76 and 144-178: the alternate-personality call returns
RetryReturnsTracked ==
    \E tokens \in Tokens : RetryReturnsGen(SampleTexts) /\ TrackCompletion(tokens)

InitGenUsage ==
    /\ InitRest
    /\ InitSan
    /\ InitLedger
    /\ InitMore
    /\ InitTail
    /\ usage_file \in UsageFiles
    /\ u_base = usage_file
    /\ trackers = {}
    /\ u_pc = [c \in Callers |-> "idle"]
    /\ u_arg = [c \in Callers |-> NoArg]
    /\ u_usage = [c \in Callers |-> TemplateFile]
    /\ u_seen = [c \in Callers |-> "none"]
    /\ u_calls = 0
    /\ rec_total = 0
    /\ rec_by = [m \in Models |-> 0]
NextGenUsage ==
    \/ \E n \in Names, personality \in Personalities : GenerateReply(n, personality)
    \/ CallReturnsTracked
    \/ RetryReturnsTracked
    \/ CallRaises
SpecGenUsage == InitGenUsage /\ [][NextGenUsage]_vars

\* C34: in one generate_reply call every backend call that returned has
\* recorded its tokens once and no call that raised has recorded any: the
\* file has grown by the tokens of the completions, discarded refusals
\* included, and the completions recorded are at most 2.
C34_UsagePerCompletion ==
    /\ u_calls = calls - raises
    /\ usage_file.total_tokens = u_base.total_tokens + rec_total
    /\ u_calls <= 2

(***************************************************************************)
(* The dashboard's approve and reject requests (web_app.py, lines 169-214) *)
(* beside one bot_loop thread that files drafts while auto-approve is off. *)
(***************************************************************************)
MaxApprovals == 2

\* auto-approve has been switched off and stays off: every reply of a pass
\* is filed in pending_logs
InitDashboard == Init /\ ~auto_approve

NextDashboard ==
    \/ NextCore
    \/ \E match_id \in Conv :
          /\ Len(approvals) < MaxApprovals
          /\ ApproveMatch(match_id)
    \/ \E match_id \in Conv : RejectMatch(match_id)
SpecDashboard == InitDashboard /\ [][NextDashboard]_vars

\* the drafts of a list of logs
DraftsOf(logs) == {logs[i] : i \in 1 .. Len(logs)}

\* the drafts a step takes off pending_logs
Dropped == DraftsOf(pending_logs) \ DraftsOf(pending_logs')

\* what one approve request for match_id does, as the claim has it
ApproveAsClaimed(match_id) ==
    LET found == FirstOf(pending_logs, match_id)
    IN IF found = <<>>
       THEN /\ approvals' = approvals
            /\ pending_logs' = pending_logs
       ELSE /\ Len(approvals') = Len(approvals) + 1
            /\ approvals'[Len(approvals')].match_id = match_id
            /\ approvals'[Len(approvals')].reply = found[1].bot_reply
            /\ IF approvals'[Len(approvals')].ok
               THEN /\ FirstOf(pending_logs', match_id) = <<>>
                    /\ pending_logs' = WithoutMatch(pending_logs, match_id)
               ELSE pending_logs' = pending_logs
            /\ \A draft \in Dropped :
                  /\ approvals'[Len(approvals')].ok
                  /\ draft = found[1]

\* C35: an approve request for a conversation sends exactly once, the
\* earliest pending draft of that conversation; a successful send takes every
\* pending draft of the conversation off pending_logs, a failed send or a
\* request without a draft leaves pending_logs as it was; so every draft that
\* leaves pending_logs in an approve request is the one that was delivered.
C35_ApproveDropsOnlyDelivered ==
    [][\A match_id \in Conv :
          ApproveMatch(match_id) => ApproveAsClaimed(match_id)]_vars

(***************************************************************************)
(* The standalone dashboard (dashboard.py): BotState.toggle_bot, start_bot *)
(* and stop_bot, and the threads that run BotState.bot_loop.  A toggle is  *)
(* one request and runs to its end before the next one; the loops run      *)
(* beside it.  The counter of the demo activity (lines 137-140) feeds no   *)
(* condition of the loop and is left out.                                  *)
(***************************************************************************)
\* Thread.is_alive(): started and not yet returned from bot_loop
LoopAlive(th) == loop_pc[th] \in {"check", "sleep"}

NotStarted == {th \in StateThreads : loop_pc[th] = "unborn"}

\* the next thread threading.Thread(...) creates
NewThread == CHOOSE th \in NotStarted : \A other \in NotStarted : th <= other

\* start_bot, lines 111-119
StartBot ==
    IF state_thread # 0 /\ LoopAlive(state_thread)
    THEN UNCHANGED <<bot_running, state_thread, loop_pc>>
    ELSE /\ NotStarted # {}
         /\ bot_running' = TRUE
         /\ state_thread' = NewThread
         /\ loop_pc' = [loop_pc EXCEPT ![NewThread] = "check"]

\* stop_bot, lines 121-126
StopBot ==
    /\ bot_running' = FALSE
    /\ state_thread' = 0
    /\ UNCHANGED loop_pc

\* toggle_bot, lines 99-109
ToggleBotState ==
    /\ state_enabled' = ~state_enabled
    /\ IF state_enabled' THEN StartBot ELSE StopBot
    /\ UNCHANGED <<outVars, promptVars, lookVars, crashVars, limitVars, botVars,
                   headNoCallers>>

\* bot_loop, line 131: the test of the while loop.  Both fields change only
\* in a toggle, which leaves them equal, so reading them one after the other
\* finds nothing that reading them at once does not.
LoopTest(th) ==
    /\ loop_pc[th] = "check"
    /\ loop_pc' = [loop_pc EXCEPT ![th] =
                     IF bot_running /\ state_enabled THEN "sleep" ELSE "ended"]
    /\ UNCHANGED <<state_enabled, bot_running, state_thread>>
    /\ UNCHANGED <<outVars, promptVars, lookVars, crashVars, limitVars, botVars,
                   headNoCallers>>

\* bot_loop, lines 132-144: time.sleep(random.uniform(5, 10)) and the demo
\* activity, then back to the test
LoopSleep(th) ==
    /\ loop_pc[th] = "sleep"
    /\ loop_pc' = [loop_pc EXCEPT ![th] = "check"]
    /\ UNCHANGED <<state_enabled, bot_running, state_thread>>
    /\ UNCHANGED <<outVars, promptVars, lookVars, crashVars, limitVars, botVars,
                   headNoCallers>>

LoopStep(th) == LoopTest(th) \/ LoopSleep(th)

\* a BotState as constructed: the switch as data/config.json has it
InitState ==
    /\ InitRest /\ InitSan /\ InitUsage /\ InitLedger /\ InitMore
    /\ InitBotIdle /\ InitOutreach /\ InitPromptIdle /\ InitLookIdle /\ InitWrite
    /\ InitLimiterIdle
    /\ state_enabled \in BOOLEAN
    /\ bot_running = FALSE
    /\ state_thread = 0
    /\ loop_pc = [th \in StateThreads |-> "unborn"]
NextState ==
    \/ ToggleBotState
    \/ \E th \in StateThreads : LoopTest(th)
    \/ \E th \in StateThreads : LoopSleep(th)
SpecState ==
    InitState /\ [][NextState]_vars /\ \A th \in StateThreads : WF_vars(LoopStep(th))

\* the threads inside bot_loop
Looping == {th \in StateThreads : LoopAlive(th)}

\* C36: after any sequence of toggle_bot calls at most one thread runs
\* bot_loop, and a loop that is running when the bot has been stopped
\* terminates.
C36_SingleLoop ==
    /\ [](Cardinality(Looping) <= 1)
    /\ \A th \in StateThreads :
          (LoopAlive(th) /\ ~bot_running) ~> (loop_pc[th] = "ended")

(***************************************************************************)
(* The instruction a backend call of generate_reply carries.               *)
(***************************************************************************)
\* a backend call of MessageGenerator.generate_reply is under way
CallUnderWay == via = "MessageGenerator" /\ g_pc \in {"call", "retry_call"}

\* C37: whatever personality generate_reply is asked for, and in the retry
\* after a refusal, which uses the flirty profile, the system instruction
\* sent to the backend is a non-empty text.
C37_InstructionNotEmpty == CallUnderWay => system_prompt # <<>>

(***************************************************************************)
(* RateLimiter.wait_if_needed (utils/rate_limiter.py, lines 18-30) and     *)
(* callers in several threads.  Time is counted in ticks of the clock; the *)
(* jitter random.uniform(0, 1) is no tick or one.  A sleep ends at its     *)
(* time or later, and time passes whatever the callers do.                 *)
(***************************************************************************)
Jitters == {0, 1}

\* a wait of the jitter alone
WaitJitter(time_passed, jitter) == jitter

\* line 27: wait_time = self.min_interval - time_passed + random.uniform(0, 1)
WaitTime(time_passed, jitter) == min_interval - time_passed + jitter

\* line 22: self.last_request_times.get(endpoint, 0)
LastTime(endpoint) ==
    IF endpoint \in DOMAIN last_request_times THEN last_request_times[endpoint]
    ELSE 0

\* line 30: self.last_request_times[endpoint] = <time>
SetLastTime(endpoint, time) ==
    [e \in DOMAIN last_request_times \cup {endpoint} |->
        IF e = endpoint THEN time ELSE last_request_times[e]]

\* a thread calls wait_if_needed(endpoint) and comes to line 20
BeginWait(w, endpoint) ==
    /\ r_pc[w] = "idle"
    /\ clock < MaxClock
    /\ r_pc' = [r_pc EXCEPT ![w] = "blocked"]
    /\ r_endpoint' = [r_endpoint EXCEPT ![w] = endpoint]
    /\ UNCHANGED <<clock, lock_holder, last_request_times, r_wake, returned>>
    /\ UNCHANGED <<outVars, promptVars, lookVars, crashVars, stateVars, botVars,
                   headNoCallers>>

\* lines 20-28: the lock is taken, the time since the last request of the
\* endpoint is measured, and the caller goes to sleep when it is too short
AcquireAndMeasure(w) ==
    /\ r_pc[w] = "blocked"
    /\ lock_holder = 0
    /\ lock_holder' = w
    /\ LET time_passed == clock - LastTime(r_endpoint[w])
       IN IF time_passed < min_interval
          THEN \E jitter \in Jitters :
                 /\ r_wake' = [r_wake EXCEPT ![w] =
                                 clock + WaitTime(time_passed, jitter)]
                 /\ r_pc' = [r_pc EXCEPT ![w] = "sleep"]
          ELSE /\ r_pc' = [r_pc EXCEPT ![w] = "stamp"]
               /\ UNCHANGED r_wake
    /\ UNCHANGED <<clock, last_request_times, r_endpoint, returned>>
    /\ UNCHANGED <<outVars, promptVars, lookVars, crashVars, stateVars, botVars,
                   headNoCallers>>

\* line 28: time.sleep(wait_time) returns
WakeUp(w) ==
    /\ r_pc[w] = "sleep"
    /\ clock >= r_wake[w]
    /\ r_pc' = [r_pc EXCEPT ![w] = "stamp"]
    /\ UNCHANGED <<clock, lock_holder, last_request_times, r_endpoint, r_wake,
                   returned>>
    /\ UNCHANGED <<outVars, promptVars, lookVars, crashVars, stateVars, botVars,
                   headNoCallers>>

\* line 30 and the end of the with block: the time is recorded, the lock is
\* released and the call returns
StampAndReturn(w) ==
    /\ r_pc[w] = "stamp"
    /\ last_request_times' = SetLastTime(r_endpoint[w], clock)
    /\ lock_holder' = 0
    /\ r_pc' = [r_pc EXCEPT ![w] = "idle"]
    /\ returned' = [returned EXCEPT ![r_endpoint[w]] = Push(@, clock)]
    /\ UNCHANGED <<clock, r_endpoint, r_wake>>
    /\ UNCHANGED <<outVars, promptVars, lookVars, crashVars, stateVars, botVars,
                   headNoCallers>>

\* a sleep that has yet to end
Sleeping == \E w \in Waiters : r_pc[w] = "sleep" /\ r_wake[w] > clock

\* time passes
Tick ==
    /\ clock < MaxClock \/ Sleeping
    /\ clock' = clock + 1
    /\ UNCHANGED <<lock_holder, last_request_times, r_pc, r_endpoint, r_wake,
                   returned>>
    /\ UNCHANGED <<outVars, promptVars, lookVars, crashVars, stateVars, botVars,
                   headNoCallers>>

WaiterStep(w) == AcquireAndMeasure(w) \/ WakeUp(w) \/ StampAndReturn(w)

InitLimiter == InitRest /\ InitAux
NextLimiter ==
    \/ \E w \in Waiters, endpoint \in Endpoints : BeginWait(w, endpoint)
    \/ \E w \in Waiters : AcquireAndMeasure(w)
    \/ \E w \in Waiters : WakeUp(w)
    \/ \E w \in Waiters : StampAndReturn(w)
    \/ Tick
SpecLimiter ==
    /\ InitLimiter /\ [][NextLimiter]_vars
    /\ WF_vars(Tick) /\ \A w \in Waiters : WF_vars(WaiterStep(w))

\* the last two returns of every endpoint are min_interval apart or more
Spaced ==
    \A e \in Endpoints :
       Len(returned[e]) = 2 => returned[e][2] - returned[e][1] >= min_interval

\* C38: whatever the interleaving of the callers, two consecutive returns of
\* wait_if_needed for one endpoint are at least min_interval apart, and every
\* call returns.
C38_SpacedAndReturning ==
    /\ []Spaced
    /\ \A w \in Waiters : (r_pc[w] # "idle") ~> (r_pc[w] = "idle")

\* a second return for an endpoint just min_interval after the first, by a
\* caller that slept, while the other caller waits for the lock
C38_Witness ==
    /\ Len(returned["default"]) = 2
    /\ returned["default"][2] - returned["default"][1] = min_interval
    /\ \E w \in Waiters : r_pc[w] = "blocked"

(***************************************************************************)
(* DataManager.cache_conversation and get_cached_conversation              *)
(* (utils/data_manager.py, lines 96-114).  A match id is written as its    *)
(* place in the sorted order of the ids, which is all that sorted() looks  *)
(* at; a conversation is written as the sequence of its messages.          *)
(***************************************************************************)
CacheKeys == 1 .. (CacheLimit + MaxExtraKeys)

\* the ids that are cached anew: the first ones and the last ones in the
\* sorted order
CacheInputs == {1, 2} \cup ((CacheLimit + 1) .. (CacheLimit + MaxExtraKeys))

Conversations == {<<>>, <<"hi">>}

\* line 104: sorted(self.conversation_cache.keys())[:20]
Oldest(keys, count) ==
    {k \in keys : Cardinality({j \in keys : j < k}) < count}

\* lines 105-106: for key in oldest: del self.conversation_cache[key]
DelKeys(dict, keys) == [k \in DOMAIN dict \ keys |-> dict[k]]

\* lines 101-106: the cache is cut once it holds more than 100 conversations
Evict(dict) ==
    IF Cardinality(DOMAIN dict) > CacheLimit
    THEN DelKeys(dict, Oldest(DOMAIN dict, EvictCount))
    ELSE dict

\* cache_conversation, lines 96-109
CacheConversation(match_id, messages) ==
    /\ conversation_cache' =
          Evict(SetReplied(conversation_cache, match_id, messages))
    /\ conversation_cache_file' = Dump(conversation_cache')
    /\ d_log' = Push(d_log, Call("cache_conversation", match_id, messages))
    /\ UNCHANGED <<replied_messages, replied_file, last_mark, d_lastRej>>
    /\ UNCHANGED <<pipeVars, genVars, sanVars, usageVars, moreVars>>

\* get_cached_conversation, lines 111-114
GetCachedConversation(match_id) ==
    IF match_id \in DOMAIN conversation_cache THEN conversation_cache[match_id]
    ELSE <<>>

\* a cache of at most 100 conversations cached earlier
Caches ==
    {[k \in lo .. hi |-> <<"old">>] :
        lo \in 1 .. 3, hi \in (CacheLimit - 1) .. (CacheLimit + MaxExtraKeys)}

InitCache ==
    /\ InitRest
    /\ InitSan
    /\ InitUsage
    /\ InitMore
    /\ InitTail
    /\ replied_file = Dump(<<>>)
    /\ replied_messages = <<>>
    /\ conversation_cache \in
          {cache \in Caches : Cardinality(DOMAIN cache) <= CacheLimit}
    /\ conversation_cache_file = Dump(conversation_cache)
    /\ last_mark = [c \in Conv |-> "none"]
    /\ d_log = <<>>
    /\ d_lastRej = [c \in Conv |-> "none"]
NextCache ==
    \E match_id \in CacheInputs, messages \in Conversations :
       CacheConversation(match_id, messages)
SpecCache == InitCache /\ [][NextCache]_vars

\* C39: after cache_conversation(m, msgs) on a cache of at most 100
\* conversations, the cache holds at most 100 conversations, m is one of
\* them, and get_cached_conversation(m) returns msgs.
C39_CachedIsKept ==
    d_log # <<>> =>
       LET call == d_log[Len(d_log)]
       IN /\ Cardinality(DOMAIN conversation_cache) <= CacheLimit
          /\ call.id \in DOMAIN conversation_cache
          /\ GetCachedConversation(call.id) = call.t

====
